---------------------------- MODULE Spec2Model ----------------------------
(***************************************************************************)
(* A model of pydependence: module scopes (a graph of modules per scope,   *)
(* merged and restricted), the import resolver (an import graph built over *)
(* a scope and walked edge by edge from a start scope), the mapping of     *)
(* imports to requirements and the write rules of the generated output.    *)
(*                                                                         *)
(* The state machines of this module share its definitions:                *)
(*   Spec         the ModulesScope objects and the operations on them      *)
(*   SpecResolve  resolutions of a scope's imports, with the import cache  *)
(*   SpecGlob     import globs constructed and matched                     *)
(*   SpecMap      imports mapped to requirements, one by one and grouped   *)
(*   SpecRules    write rules applied to a source module or requirement    *)
(*   SpecGen      the requirements of an output generated                  *)
(*   SpecLoad     the import loader asked for modules while files change   *)
(*   SpecFind     directories scanned for modules                          *)
(*   SpecFilter   resolutions and the filter on their targets              *)
(*   SpecRun      a run of the program on a pyproject configuration        *)
(***************************************************************************)
EXTENDS Integers, Sequences, FiniteSets, TLC

VARIABLES
    graphs,          \* the heap of nx.DiGraph objects: graph id -> graph
    scopes,          \* the ModulesScope objects: name -> id of its _module_graph
    origin,          \* which scope the scope "r" was restricted from (or "none")
    last,            \* the last call on a scope: its arguments, outcome and pre-state
    nops,            \* how many calls were made
    files,           \* what the source scanner reports per module file
    modules_imports, \* DEFAULT_MODULE_IMPORTS_LOADER._modules_imports
    req,             \* the (scope, start_scope) pair being resolved
    out,             \* the outcome of resolving req, per skip_lazy
    glob,            \* the ImportMatcherGlob last constructed
    env_matchers,    \* RequirementsMapper._env_matchers
    lru,             \* the lru_cache of map_import_to_requirement_info
    run_cfg,         \* strict_requirements_map and the write rules of the output
    write_obj,       \* the WriteRequirement or source module the rules apply to
    ret              \* what the last call on a matcher or mapper returned

scopeVars == <<graphs, scopes, origin, last, nops>>
resolveVars == <<files, modules_imports, req, out>>
reqsVars == <<glob, env_matchers, lru, run_cfg, write_obj, ret>>
vars ==
    <<graphs, scopes, origin, last, nops, files, modules_imports, req, out,
      glob, env_matchers, lru, run_cfg, write_obj, ret>>

(***************************************************************************)
(* Dotted names.  A Python str is a sequence of characters; "A.a1" is      *)
(* <<"A", ".", "a", "1">>.                                                 *)
(***************************************************************************)
nA == <<"A">>
nAa1 == <<"A", ".", "a", "1">>
nAa2 == <<"A", ".", "a", "2">>
nAa3 == <<"A", ".", "a", "3">>
nAa3a3i == <<"A", ".", "a", "3", ".", "a", "3", "i">>
nAB == <<"A", "B">>
nB == <<"B">>
nBb1 == <<"B", ".", "b", "1">>
nOs == <<"o", "s">>
nADot == <<"A", ".">>
nAa1asdf == <<"A", ".", "a", "1", ".", "a", "s", "d", "f">>
nABx == <<"A", "B", ".", "x">>
nAsdf == <<"a", "s", "d", "f">>
rGlobAa3 == <<"g", "l", "o", "b", "_", "A", "a", "3">>
rGlobAa1 == <<"g", "l", "o", "b", "_", "A", "a", "1">>
rGlobA == <<"g", "l", "o", "b", "_", "A">>
rGlobAa2 == <<"g", "l", "o", "b", "_", "A", "a", "2">>
rScopeB == <<"s", "c", "o", "p", "e", "_", "b">>
rExtraAa2 == <<"e", "x", "t", "r", "a", "_", "A", "a", "2">>
rExtraB == <<"e", "x", "t", "r", "a", "_", "B">>
nAsdfFdsa == <<"a", "s", "d", "f", ".", "f", "d", "s", "a">>

IdentStart == {"A", "B", "a", "b", "d", "f", "i", "o", "s", "x", "_"}
IdentDigit == {"1", "2", "3"}

\* str.split("."): the parts between the dots; "A." gives ["A", ""].
RECURSIVE SplitAcc(_, _, _, _)
SplitAcc(s, i, cur, acc) ==
    IF i > Len(s) THEN Append(acc, cur)
    ELSE IF s[i] = "." THEN SplitAcc(s, i + 1, <<>>, Append(acc, cur))
    ELSE SplitAcc(s, i + 1, Append(cur, s[i]), acc)

Split(s) == SplitAcc(s, 1, <<>>, <<>>)

\* str.isidentifier() over the characters the model uses.
IsIdentifier(part) ==
    /\ Len(part) > 0
    /\ part[1] \in IdentStart
    /\ \A i \in 2..Len(part) : part[i] \in IdentStart \cup IdentDigit

\* assert_valid_import_name: TRUE when it returns, FALSE when it raises NameError.
ValidImportName(import_) ==
    LET parts == Split(import_)
    IN  \A i \in 1..Len(parts) : IsIdentifier(parts[i])

Range(f) == {f[x] : x \in DOMAIN f}

(***************************************************************************)
(* nx.DiGraph: nodes, edges, and the module_info attribute of the nodes    *)
(* that carry one (a node added from a raw import carries none).           *)
(***************************************************************************)
EmptyGraph == [nodes |-> {}, edges |-> {}, info |-> <<>>]

\* nx.compose(G, H): the union; H's node attributes take precedence.
Compose(G, H) ==
    [nodes |-> G.nodes \cup H.nodes,
     edges |-> G.edges \cup H.edges,
     info  |-> [n \in (DOMAIN G.info) \cup (DOMAIN H.info) |->
                    IF n \in DOMAIN H.info THEN H.info[n] ELSE G.info[n]]]

\* DiGraph.remove_node: the node, its attributes and its incident edges.
RemoveNode(g, n) ==
    [nodes |-> g.nodes \ {n},
     edges |-> {e \in g.edges : e[1] # n /\ e[2] # n},
     info  |-> [m \in (DOMAIN g.info) \ {n} |-> g.info[m]]]

RECURSIVE RemoveNodes(_, _)
RemoveNodes(g, ns) ==
    IF ns = {} THEN g
    ELSE LET n == CHOOSE x \in ns : TRUE
         IN  RemoveNodes(RemoveNode(g, n), ns \ {n})

\* The graph `add_modules_from_raw_imports` builds: one bare node per import.
RawImportsGraph(imports) ==
    [nodes |-> Range(imports), edges |-> {}, info |-> <<>>]

(***************************************************************************)
(* The heap.  A ModulesScope holds a reference to its graph; a graph that  *)
(* no scope refers to any more is collected.                               *)
(***************************************************************************)
Slots == {"a", "b", "r"}
GraphIds == 1..(Cardinality(Slots) + 2)

NewId(h) == CHOOSE i \in GraphIds \ DOMAIN h :
                \A j \in GraphIds \ DOMAIN h : i <= j

Collect(h, live) == [i \in (DOMAIN h) \cap live |-> h[i]]

\* The heap and the scopes after a call returned: the graphs no scope holds are
\* collected, and the ids (addresses, which carry no meaning) are renumbered in
\* the order a, b, r of the scopes holding them.
SlotOrder == <<"a", "b", "r">>

CanonId(sc, k) ==
    LET first == CHOOSE j \in 1..k :
                     /\ sc[SlotOrder[j]] = sc[SlotOrder[k]]
                     /\ \A i \in 1..(j - 1) : sc[SlotOrder[i]] # sc[SlotOrder[k]]
    IN  Cardinality({sc[SlotOrder[j]] : j \in 1..first})

Settle(h, sc) ==
    LET canon == [k \in 1..Len(SlotOrder) |-> CanonId(sc, k)]
    IN  [scopes |-> [s \in Slots |->
                        canon[CHOOSE k \in 1..Len(SlotOrder) : SlotOrder[k] = s]],
         graphs |-> [i \in Range(canon) |->
                        h[sc[SlotOrder[CHOOSE k \in 1..Len(SlotOrder) : canon[k] = i]]]]]

\* DiGraph.copy(): a new graph object with the same nodes, edges and attributes.
GraphCopyShared(h, gid) == [graphs |-> h, gid |-> gid]

GraphCopy(h, gid) ==
    LET n == NewId(h)
    IN  [graphs |-> h @@ (n :> h[gid]), gid |-> n]


(***************************************************************************)
(* ModulesScope.  Every operation takes the heap and the id of the         *)
(* receiver's graph and gives back the heap, the outcome ("ok" or the      *)
(* exception raised) and the id of the graph the receiver (or the scope    *)
(* returned) holds afterwards.                                             *)
(***************************************************************************)
\* _merge_module_graph without its duplicate check.
MergeModuleGraphUnchecked(h, gid, graph) ==
    LET n == NewId(h)
    IN  [err |-> "ok", graphs |-> h @@ (n :> Compose(h[gid], graph)), gid |-> n]

MergeModuleGraph(h, gid, graph) ==
    IF h[gid].nodes \cap graph.nodes # {}
    THEN [err |-> "DuplicateModuleError", graphs |-> h, gid |-> gid]
    ELSE LET n == NewId(h)
         IN  [err |-> "ok", graphs |-> h @@ (n :> Compose(h[gid], graph)), gid |-> n]

\* As is_scope_subset, but the containment edges are compared too.
IsScopeSubsetWithEdges(h, self, other) ==
    /\ h[other].nodes \subseteq h[self].nodes
    /\ h[other].edges \subseteq h[self].edges

\* is_scope_subset: self._module_graph.nodes >= other._module_graph.nodes
IsScopeSubset(h, self, other) == h[other].nodes \subseteq h[self].nodes

\* is_scope_parent_set: self._module_graph.nodes <= other._module_graph.nodes
IsScopeParentSet(h, self, other) == h[self].nodes \subseteq h[other].nodes

\* get_scope_conflicts
GetScopeConflicts(h, self, other) == h[self].nodes \cap h[other].nodes

\* is_scope_conflicts
IsScopeConflicts(h, self, other) == h[self].nodes \cap h[other].nodes # {}

\* Scope equality: each scope is a subset of the other.
IsScopeEqual(h, self, other) ==
    IsScopeSubset(h, self, other) /\ IsScopeSubset(h, other, self)

RestrictModes == {"EXACT", "CHILDREN", "ROOT_CHILDREN"}
RestrictOps == {"LIMIT", "EXCLUDE"}

\* The Python values put in `allowed`: a tuple of str parts, tuple(i.split(".")),
\* or a one-item tuple holding the list of parts, (i.split("."),).
PyStrTuple(parts) == [type |-> "tuple", of |-> "str", items |-> parts]
PyListTuple(parts) == [type |-> "tuple", of |-> "list", items |-> <<parts>>]

\* hash(): a tuple hashes its items; a str is hashable, a list is not.
Hashable(v) == v.of = "str"

AllowedItems(imports, mode) ==
    IF mode = "ROOT_CHILDREN"
    THEN {PyListTuple(Split(i)) : i \in imports}
    ELSE {PyStrTuple(Split(i)) : i \in imports}

\* any(node_parts[: i + 1] in allowed for i in range(len(node_parts))) with the
\* anchor itself left out: range(1, len(node_parts)) over node_parts[:i].
MatchesChildrenProperOnly(node_parts, allowed) ==
    \E i \in 1..(Len(node_parts) - 1) : PyStrTuple(SubSeq(node_parts, 1, i)) \in allowed

MatchesChildren(node_parts, allowed) ==
    \E i \in 0..(Len(node_parts) - 1) :
        PyStrTuple(SubSeq(node_parts, 1, i + 1)) \in allowed

\* The `remove` flag computed for one node before the operation is applied.
NotMatched(node, allowed, mode) ==
    LET node_parts == Split(node)
    IN  CASE mode = "EXACT" -> PyStrTuple(node_parts) \notin allowed
          [] mode = "ROOT_CHILDREN" ->
                PyStrTuple(SubSeq(node_parts, 1, 1)) \notin allowed
          [] mode = "CHILDREN" -> ~MatchesChildren(node_parts, allowed)

\* `remove` after the operation: LIMIT removes the unmatched, EXCLUDE the matched.
ApplyOp(remove, op) ==
    IF op = "LIMIT" THEN remove ELSE ~remove

GetRestrictedScope(h, gid, imports, mode, op) ==
    IF \E i \in 1..Len(imports) : ~ValidImportName(imports[i])
    THEN [err |-> "NameError", graphs |-> h, gid |-> gid]
    ELSE LET c == GraphCopy(h, gid)
             items == AllowedItems(Range(imports), mode)
         IN  IF \E v \in items : ~Hashable(v)
             THEN [err |-> "TypeError", graphs |-> c.graphs, gid |-> gid]
             ELSE LET removed == {node \in c.graphs[c.gid].nodes :
                                     ApplyOp(NotMatched(node, items, mode), op)}
                  IN  [err |-> "ok",
                       graphs |-> [c.graphs EXCEPT
                                       ![c.gid] = RemoveNodes(@, removed)],
                       gid |-> c.gid]

(***************************************************************************)
(* _find_modules.  What the namespace scanner yields for a path is an      *)
(* input: Disk gives, per path, whether it is a directory, whether it      *)
(* exists, and the dotted names of the module files found under it.        *)
(***************************************************************************)
Disk ==
    [pkgs_b   |-> [is_dir |-> TRUE, exists |-> TRUE, name |-> "pkgs_b",
                   parent |-> "root", found |-> <<nB, nBb1>>],
     pkgs_gap |-> [is_dir |-> TRUE, exists |-> TRUE, name |-> "pkgs_gap",
                   parent |-> "root", found |-> <<nA, nAa3a3i>>],
     pkgs_dup |-> [is_dir |-> TRUE, exists |-> TRUE, name |-> "pkgs_dup",
                   parent |-> "root", found |-> <<nAB, nAB>>],
     pkgs_orphan |-> [is_dir |-> TRUE, exists |-> TRUE, name |-> "pkgs_orphan",
                      parent |-> "root", found |-> <<nAa1, nAa2>>],
     nowhere  |-> [is_dir |-> FALSE, exists |-> FALSE, name |-> "nowhere",
                   parent |-> "root", found |-> <<>>]]

\* The ModuleMetadata of a module found under a path.
ModuleMetadata(name, path, tag) == [name |-> name, path |-> path, tag |-> tag]

\* ".".join(parts)
RECURSIVE Join(_)
Join(parts) ==
    IF Len(parts) = 0 THEN <<>>
    ELSE IF Len(parts) = 1 THEN parts[1]
    ELSE parts[1] \o <<".">> \o Join(Tail(parts))

\* The loop over what one path yields: a name already in the graph is a duplicate.
RECURSIVE AddFound(_, _, _, _, _)
AddFound(g, found, i, path, tag) ==
    IF i > Len(found) THEN [err |-> "ok", g |-> g]
    ELSE IF found[i] \in g.nodes THEN [err |-> "DuplicateModuleError", g |-> g]
    ELSE AddFound([nodes |-> g.nodes \cup {found[i]},
                   edges |-> g.edges,
                   info  |-> g.info @@
                             (found[i] :> ModuleMetadata(found[i], path, tag))],
                  found, i + 1, path, tag)

RECURSIVE LoadPaths(_, _, _, _, _)
LoadPaths(g, paths, i, kind, tag) ==
    IF i > Len(paths) THEN [err |-> "ok", g |-> g]
    ELSE IF kind = "search" /\ ~Disk[paths[i]].is_dir
    THEN [err |-> "NotADirectoryError", g |-> g]
    ELSE IF kind = "package" /\ ~Disk[paths[i]].exists
    THEN [err |-> "FileNotFoundError", g |-> g]
    ELSE LET r == AddFound(g, Disk[paths[i]].found, 1, paths[i], tag)
         IN  IF r.err # "ok" THEN r ELSE LoadPaths(r.g, paths, i + 1, kind, tag)

\* The edge parent -> node for every node whose parent package is a node too.
ParentEdges(nodes) ==
    {<<Join(SubSeq(Split(n), 1, Len(Split(n)) - 1)), n>> :
        n \in {m \in nodes :
                 /\ Len(Split(m)) > 1
                 /\ Join(SubSeq(Split(m), 1, Len(Split(m)) - 1)) \in nodes}}

\* nx.has_path(reverse, node, root): a path from node to root against the edges.
RECURSIVE Ancestors(_, _)
Ancestors(edges, seen) ==
    LET more == seen \cup {e[1] : e \in {f \in edges : f[2] \in seen}}
    IN  IF more = seen THEN seen ELSE Ancestors(edges, more)

FindModules(search_paths, package_paths, tag, reachable_only) ==
    LET a == LoadPaths(EmptyGraph, search_paths, 1, "search", tag)
        b == IF a.err # "ok" THEN a
             ELSE LoadPaths(a.g, package_paths, 1, "package", tag)
        g == [b.g EXCEPT !.edges = ParentEdges(b.g.nodes)]
    IN  IF b.err # "ok" THEN b
        ELSE IF <<>> \in g.nodes THEN [err |-> "RuntimeError", g |-> g]
        ELSE IF ~reachable_only THEN [err |-> "ok", g |-> g]
        ELSE IF \E n \in g.nodes : Split(n)[1] \notin g.nodes
        THEN [err |-> "NodeNotFound", g |-> g]
        ELSE [err |-> "ok",
              g |-> RemoveNodes(g, {n \in g.nodes :
                        Split(n)[1] \notin Ancestors(g.edges, {n})})]

\* add_modules_from_search_path; tag "None" stands for no tag given.
AddModulesFromSearchPath(h, gid, search_path, tag) ==
    LET t == IF tag = "None" THEN Disk[search_path].name ELSE tag
        f == FindModules(<<search_path>>, <<>>, t, FALSE)
    IN  IF f.err # "ok" THEN [err |-> f.err, graphs |-> h, gid |-> gid]
        ELSE MergeModuleGraph(h, gid, f.g)

\* add_modules_from_package_path
AddModulesFromPackagePath(h, gid, package_path, tag) ==
    LET t == IF tag = "None" THEN Disk[package_path].parent ELSE tag
        f == FindModules(<<>>, <<package_path>>, t, FALSE)
    IN  IF f.err # "ok" THEN [err |-> f.err, graphs |-> h, gid |-> gid]
        ELSE MergeModuleGraph(h, gid, f.g)

(***************************************************************************)
(* CfgScope.make_module_scope: parents, then search and package paths,     *)
(* then the filters limit and exclude.  `loaded` maps the names of the     *)
(* scopes loaded so far to their graphs; `live` are the graphs to keep.    *)
(***************************************************************************)
Tidy(st, live) == [st EXCEPT !.graphs = Collect(@, live \cup {st.gid})]

RECURSIVE LoadParents(_, _, _, _, _)
LoadParents(st, parents, i, loaded, live) ==
    IF st.err # "ok" \/ i > Len(parents) THEN st
    ELSE IF parents[i] \notin DOMAIN loaded
    THEN [st EXCEPT !.err = "ValueError"]
    ELSE LoadParents(
             Tidy(MergeModuleGraph(st.graphs, st.gid, st.graphs[loaded[parents[i]]]),
                  live),
             parents, i + 1, loaded, live)

RECURSIVE LoadCfgPaths(_, _, _, _, _, _)
LoadCfgPaths(st, paths, i, kind, tag, live) ==
    IF st.err # "ok" \/ i > Len(paths) THEN st
    ELSE LoadCfgPaths(
             Tidy(IF kind = "search"
                  THEN AddModulesFromSearchPath(st.graphs, st.gid, paths[i], tag)
                  ELSE AddModulesFromPackagePath(st.graphs, st.gid, paths[i], tag),
                  live),
             paths, i + 1, kind, tag, live)

\* One filter of make_module_scope, skipped when its list is None or empty.
FilterStep(st, anchors, op, live) ==
    IF st.err # "ok" \/ Len(anchors) = 0 THEN st
    ELSE Tidy(GetRestrictedScope(st.graphs, st.gid, anchors, "CHILDREN", op), live)

\* A new ModulesScope(): an empty graph of its own.
NewScope(h) == [err |-> "ok", graphs |-> h @@ (NewId(h) :> EmptyGraph), gid |-> NewId(h)]

\* `if self.packages: raise NotImplementedError`
PackagesStep(st, packages) ==
    IF st.err = "ok" /\ Len(packages) > 0
    THEN [st EXCEPT !.err = "NotImplementedError"] ELSE st

LoadSources(h, cfg, loaded, live) ==
    PackagesStep(
        LoadCfgPaths(
            LoadCfgPaths(
                LoadParents(NewScope(h), cfg.parents, 1, loaded, live),
                cfg.search_paths, 1, "search", cfg.name, live),
            cfg.pkg_paths, 1, "package", cfg.name, live),
        cfg.packages)

\* make_module_scope with its exclude filter left out.
MakeModuleScopeLimitOnly(h, cfg, loaded, live) ==
    FilterStep(LoadSources(h, cfg, loaded, live), cfg.limit, "LIMIT", live)

MakeModuleScope(h, cfg, loaded, live) ==
    FilterStep(FilterStep(LoadSources(h, cfg, loaded, live),
                          cfg.limit, "LIMIT", live),
               cfg.exclude, "EXCLUDE", live)

(***************************************************************************)
(* The state machine of the scopes.                                        *)
(***************************************************************************)
Modules(s) == graphs[scopes[s]].nodes

Snapshot == [s \in Slots |-> Modules(s)]

PkgA == <<nA, nAa1, nAa2, nAa3, nAa3a3i>>
PkgB == <<nB, nBb1>>
RawBatches == {PkgA, PkgB, <<nAa1, nAB>>}

AnchorLists == {<<nA>>, <<nAa3>>, <<nB, nAa3>>, <<>>, <<nADot>>}

MaxOps == 3

\* The (path, tag) pairs scanned; tag "None" stands for no tag given.
PathCalls ==
    {<<"pkgs_b", "test">>, <<"pkgs_b", "None">>, <<"pkgs_gap", "test">>,
     <<"pkgs_dup", "test">>, <<"nowhere", "test">>}

NoCfg ==
    [name |-> "none", parents |-> <<>>, search_paths |-> <<>>, pkg_paths |-> <<>>,
     packages |-> <<>>, limit |-> <<>>, exclude |-> <<>>]

\* The scope definitions tried: parents with every pair of filters, a scanned
\* search path, and one definition per way of failing.
CfgScopes ==
    {[NoCfg EXCEPT !.name = "s", !.parents = p, !.limit = f[1], !.exclude = f[2]] :
        p \in {<<"a">>, <<"a", "b">>},
        f \in {<< <<>>, <<>> >>, << <<nA>>, <<>> >>, << <<>>, <<nAa3>> >>,
               << <<nA>>, <<nAa3>> >>, << <<nA, nB>>, <<nB>> >>,
               << <<nAa3>>, <<nA>> >>}}
    \cup {[NoCfg EXCEPT !.name = "s", !.search_paths = <<"pkgs_b">>],
          [NoCfg EXCEPT !.name = "s", !.parents = <<"a">>,
                        !.search_paths = <<"pkgs_b">>,
                        !.limit = <<nA, nB>>, !.exclude = <<nBb1>>],
          [NoCfg EXCEPT !.name = "s", !.parents = <<"zz">>],
          [NoCfg EXCEPT !.name = "s", !.pkg_paths = <<"pkgs_gap">>],
          [NoCfg EXCEPT !.name = "s", !.pkg_paths = <<"nowhere">>],
          [NoCfg EXCEPT !.name = "s", !.search_paths = <<"nowhere">>],
          [NoCfg EXCEPT !.name = "s", !.packages = <<nA>>],
          [NoCfg EXCEPT !.name = "s", !.parents = <<"a">>, !.limit = <<nADot>>,
                        !.exclude = <<nAa3>>]}

NoCall ==
    [op |-> "none", self |-> "none", other |-> "none", imports |-> <<>>,
     mode |-> "none", rop |-> "none", path |-> "none", cfg |-> NoCfg,
     err |-> "ok", pre |-> [s \in Slots |-> {}], merged |-> {}]

NoFiles == {}
NoReq == [active |-> FALSE]
NoGlob == [err |-> "none"]
NoRet == [op |-> "none"]
NoOutputCfg == [strict_requirements_map |-> TRUE]
NoObj == [kind |-> "none"]

ResolveIdle ==
    /\ files = NoFiles
    /\ modules_imports = <<>>
    /\ req = NoReq
    /\ out = <<>>
    /\ glob = NoGlob
    /\ env_matchers = <<>>
    /\ lru = <<>>
    /\ run_cfg = NoOutputCfg
    /\ write_obj = NoObj
    /\ ret = NoRet

Init ==
    /\ scopes = [s \in Slots |-> CHOOSE k \in 1..Len(SlotOrder) : SlotOrder[k] = s]
    /\ graphs = [i \in 1..Cardinality(Slots) |-> EmptyGraph]
    /\ origin = "none"
    /\ last = NoCall
    /\ nops = 0
    /\ ResolveIdle

\* A call on the scope `self` that merges a graph into it.
Merged(self, m, call) ==
    LET w == Settle(m.graphs, [scopes EXCEPT ![self] = m.gid])
    IN  /\ graphs' = w.graphs
        /\ scopes' = w.scopes
        /\ last' = [call EXCEPT !.self = self, !.err = m.err, !.pre = Snapshot]
        /\ nops' = nops + 1
        /\ UNCHANGED <<origin, resolveVars, reqsVars>>

\* A call that returns a new scope, which the caller binds to "r".
Returned(g, from, call) ==
    LET w == Settle(g.graphs,
                    IF g.err = "ok" THEN [scopes EXCEPT !["r"] = g.gid] ELSE scopes)
    IN  /\ graphs' = w.graphs
        /\ scopes' = w.scopes
        /\ origin' = IF g.err = "ok" THEN from ELSE origin
        /\ last' = [call EXCEPT !.err = g.err, !.pre = Snapshot]
        /\ nops' = nops + 1
        /\ UNCHANGED <<resolveVars, reqsVars>>

AddModulesFromRawImports(self, imports) ==
    /\ nops < MaxOps
    /\ Merged(self,
              MergeModuleGraph(graphs, scopes[self], RawImportsGraph(imports)),
              [NoCall EXCEPT !.op = "add_modules_from_raw_imports",
                             !.imports = imports, !.merged = Range(imports)])

AddModulesFromScope(self, other) ==
    /\ nops < MaxOps
    /\ Merged(self,
              MergeModuleGraph(graphs, scopes[self], graphs[scopes[other]]),
              [NoCall EXCEPT !.op = "add_modules_from_scope",
                             !.other = other, !.merged = Modules(other)])

AddFromSearchPath(self, path, tag) ==
    /\ nops < MaxOps
    /\ Merged(self,
              AddModulesFromSearchPath(graphs, scopes[self], path, tag),
              [NoCall EXCEPT !.op = "add_modules_from_search_path",
                             !.path = path, !.merged = Range(Disk[path].found)])

AddFromPackagePath(self, path, tag) ==
    /\ nops < MaxOps
    /\ Merged(self,
              AddModulesFromPackagePath(graphs, scopes[self], path, tag),
              [NoCall EXCEPT !.op = "add_modules_from_package_path",
                             !.path = path, !.merged = Range(Disk[path].found)])

RestrictScope(self, imports, mode, op) ==
    /\ nops < MaxOps
    /\ Returned(GetRestrictedScope(graphs, scopes[self], imports, mode, op), self,
                [NoCall EXCEPT !.op = "get_restricted_scope", !.self = self,
                               !.imports = imports, !.mode = mode, !.rop = op])

MakeScope(cfg) ==
    /\ nops < MaxOps
    /\ Returned(MakeModuleScope(graphs, cfg,
                                [s \in {"a", "b"} |-> scopes[s]], Range(scopes)),
                "none",
                [NoCall EXCEPT !.op = "make_module_scope", !.cfg = cfg])

Next ==
    \/ \E self \in Slots, imports \in RawBatches :
           AddModulesFromRawImports(self, imports)
    \/ \E self \in Slots, other \in Slots : AddModulesFromScope(self, other)
    \/ \E c \in PathCalls : AddFromSearchPath("b", c[1], c[2])
    \/ \E c \in PathCalls : AddFromPackagePath("b", c[1], c[2])
    \/ \E imports \in AnchorLists, mode \in RestrictModes, op \in RestrictOps :
           RestrictScope("a", imports, mode, op)
    \/ \E cfg \in CfgScopes : MakeScope(cfg)

Spec == Init /\ [][Next]_vars

(***************************************************************************)
(* Resolving the imports of a scope.                                       *)
(*                                                                         *)
(* `files` is what is on disk: a set of import statements, each in the     *)
(* file of the module `src`, at line `lineno`, importing `target`, lazily  *)
(* or not.  The scanner turns the statements of one file into a dict from  *)
(* target to the list of its occurrences, in the order of the file.        *)
(***************************************************************************)
EmptyImports == [keys |-> <<>>, at |-> <<>>]

LocImportInfo(module_info, stmt) ==
    [source_module_info |-> module_info, target |-> stmt.target,
     is_lazy |-> stmt.is_lazy, lineno |-> stmt.lineno]

\* defaultdict(list): imports[target].append(occurrence)
AppendImport(acc, o) ==
    IF o.target \in DOMAIN acc.at
    THEN [acc EXCEPT !.at[o.target] = Append(@, o)]
    ELSE [keys |-> Append(acc.keys, o.target), at |-> acc.at @@ (o.target :> <<o>>)]

FirstLine(stmts) == CHOOSE x \in stmts : \A y \in stmts : x.lineno <= y.lineno

RECURSIVE ScanLines(_, _, _)
ScanLines(stmts, module_info, acc) ==
    IF stmts = {} THEN acc
    ELSE ScanLines(stmts \ {FirstLine(stmts)}, module_info,
                   AppendImport(acc, LocImportInfo(module_info, FirstLine(stmts))))

LoadImportsFromModuleInfo(fs, module_info) ==
    ScanLines({x \in fs : x.src = module_info.name}, module_info, EmptyImports)

\* As load_module_imports, but the file is scanned again on every call and a
\* differing module record replaces the stored one.
LoadModuleImportsRescan(cache, fs, module_info) ==
    LET v == [module_info |-> module_info,
              module_imports |-> LoadImportsFromModuleInfo(fs, module_info)]
    IN  [err |-> "ok",
         cache |-> [n \in DOMAIN cache \cup {module_info.name} |->
                       IF n = module_info.name THEN v ELSE cache[n]],
         v |-> v]

\* _ModuleImportsLoader.load_module_imports: scanned once per module name.
LoadModuleImports(cache, fs, module_info) ==
    IF module_info.name \notin DOMAIN cache
    THEN [err |-> "ok",
          cache |-> cache @@ (module_info.name :>
                       [module_info |-> module_info,
                        module_imports |-> LoadImportsFromModuleInfo(fs, module_info)]),
          v |-> [module_info |-> module_info,
                 module_imports |-> LoadImportsFromModuleInfo(fs, module_info)]]
    ELSE IF cache[module_info.name].module_info # module_info
    THEN [err |-> "RuntimeError", cache |-> cache, v |-> cache[module_info.name]]
    ELSE [err |-> "ok", cache |-> cache, v |-> cache[module_info.name]]

(***************************************************************************)
(* The import graph: nodes and successors in insertion order, and the data *)
(* of each edge.                                                           *)
(***************************************************************************)
EmptyImportGraph == [nodes |-> <<>>, adj |-> <<>>, data |-> <<>>]

\* The order in which a set-like view yields its members.
RECURSIVE SetToSeq(_)
SetToSeq(S) ==
    IF S = {} THEN <<>>
    ELSE <<CHOOSE x \in S : TRUE>> \o SetToSeq(S \ {CHOOSE x \in S : TRUE})

\* DiGraph.add_node
AddNode(g, n) ==
    IF n \in DOMAIN g.adj THEN g
    ELSE [g EXCEPT !.nodes = Append(@, n), !.adj = @ @@ (n :> <<>>)]

LinkEdge(g, u, v, d) ==
    IF <<u, v>> \in DOMAIN g.data
    THEN [g EXCEPT !.data[<<u, v>>] = d]
    ELSE [g EXCEPT !.adj[u] = Append(@, v), !.data = @ @@ (<<u, v>> :> d)]

\* DiGraph.add_edge: adds the end nodes that are not in the graph yet.
AddEdge(g, u, v, d) == LinkEdge(AddNode(AddNode(g, u), v), u, v, d)

AllLazy(imports) == \A k \in 1..Len(imports) : imports[k].is_lazy

\* As SkipsEdge, but nothing is left out of the graph.
SkipsNoEdge(imports, skip_lazy) == FALSE

SkipsEdgeWithoutSkipLazy(imports, skip_lazy) == ~skip_lazy /\ AllLazy(imports)

\* `if skip_lazy and all_lazy: continue`
SkipsEdge(imports, skip_lazy) == skip_lazy /\ AllLazy(imports)

\* The loop over the imports of one module.
RECURSIVE AddImportEdges(_, _, _, _, _)
AddImportEdges(g, node, module_imports, k, skip_lazy) ==
    IF k > Len(module_imports.keys) THEN g
    ELSE IF Len(module_imports.at[module_imports.keys[k]]) = 0
    THEN AddImportEdges(g, node, module_imports, k + 1, skip_lazy)
    ELSE IF SkipsEdge(module_imports.at[module_imports.keys[k]], skip_lazy)
    THEN AddImportEdges(g, node, module_imports, k + 1, skip_lazy)
    ELSE AddImportEdges(
             AddEdge(g, node, module_imports.keys[k],
                     [imports |-> module_imports.at[module_imports.keys[k]],
                      all_lazy |-> AllLazy(module_imports.at[module_imports.keys[k]])]),
             node, module_imports, k + 1, skip_lazy)

\* One module of the scope that has its module_info: load, add node and edges.
AddModule(st, node, l, skip_lazy) ==
    IF l.err # "ok" THEN [st EXCEPT !.err = l.err, !.cache = l.cache]
    ELSE [err |-> "ok", cache |-> l.cache,
          g |-> AddImportEdges(AddNode(st.g, node), node,
                               l.v.module_imports, 1, skip_lazy)]

RECURSIVE ConstructLoop(_, _, _, _, _, _)
ConstructLoop(st, fs, scope_graph, nodes, i, skip_lazy) ==
    IF i > Len(nodes) \/ st.err # "ok" THEN st
    ELSE IF nodes[i] \notin DOMAIN scope_graph.info
    THEN ConstructLoop(st, fs, scope_graph, nodes, i + 1, skip_lazy)
    ELSE ConstructLoop(
             AddModule(st, nodes[i],
                       LoadModuleImports(st.cache, fs, scope_graph.info[nodes[i]]),
                       skip_lazy),
             fs, scope_graph, nodes, i + 1, skip_lazy)

ConstructModuleImportGraph(cache, fs, scope_graph, skip_lazy) ==
    ConstructLoop([err |-> "ok", cache |-> cache, g |-> EmptyImportGraph],
                  fs, scope_graph, SetToSeq(scope_graph.nodes), 1, skip_lazy)

(***************************************************************************)
(* nx.edge_dfs(G, source): every start node in turn is pushed on the       *)
(* stack; the node on top of the stack hands out its next out-edge, and an *)
(* edge not handed out before is yielded and its head pushed.              *)
(***************************************************************************)
\* nbunch_iter: the start nodes that are nodes of the graph.
RECURSIVE InGraph(_, _)
InGraph(g, nodes) ==
    IF Len(nodes) = 0 THEN <<>>
    ELSE IF Head(nodes) \in DOMAIN g.adj
    THEN <<Head(nodes)>> \o InGraph(g, Tail(nodes))
    ELSE InGraph(g, Tail(nodes))

DfsStart(g) ==
    [stack |-> <<>>, visited_nodes |-> {}, visited_edges |-> {},
     edges |-> <<>>, yielded |-> <<>>]

Top(st) == st.stack[Len(st.stack)]

\* The iterator over the out-edges of a node is made when the node is first on top.
Visit(st) ==
    IF Top(st) \in st.visited_nodes THEN st
    ELSE [st EXCEPT !.edges = @ @@ (Top(st) :> 1), !.visited_nodes = @ \cup {Top(st)}]

\* As NotVisited, but an edge into a node that was visited counts as visited.
NotVisitedNode(st, edge) == edge[2] \notin st.visited_nodes

\* `if edgeid not in visited_edges`
NotVisited(st, edge) == edge \notin st.visited_edges

\* next(edges[current_node]) gave `edge`.
TakeEdge(st, edge) ==
    IF NotVisited(st, edge)
    THEN [st EXCEPT !.edges[edge[1]] = @ + 1,
                    !.visited_edges = @ \cup {edge},
                    !.stack = Append(@, edge[2]),
                    !.yielded = Append(@, edge)]
    ELSE [st EXCEPT !.edges[edge[1]] = @ + 1]

\* One turn of `while stack`, the top of the stack having been visited.
DfsStep(g, st) ==
    IF st.edges[Top(st)] > Len(g.adj[Top(st)])
    THEN [st EXCEPT !.stack = SubSeq(@, 1, Len(@) - 1)]
    ELSE TakeEdge(st, <<Top(st), g.adj[Top(st)][st.edges[Top(st)]]>>)

RECURSIVE DfsWhile(_, _)
DfsWhile(g, st) ==
    IF Len(st.stack) = 0 THEN st ELSE DfsWhile(g, DfsStep(g, Visit(st)))

RECURSIVE DfsFrom(_, _, _, _)
DfsFrom(g, nodes, i, st) ==
    IF i > Len(nodes) THEN st
    ELSE DfsFrom(g, nodes, i + 1, DfsWhile(g, [st EXCEPT !.stack = <<nodes[i]>>]))

EdgeDfs(g, source) == DfsFrom(g, InGraph(g, source), 1, DfsStart(g)).yielded

\* As UpdateImports, but the occurrences of an edge are stored under its source.
RECURSIVE UpdateImportsUnderSource(_, _, _, _)
UpdateImportsUnderSource(g, edges, i, imports) ==
    IF i > Len(edges) THEN imports
    ELSE UpdateImportsUnderSource(g, edges, i + 1,
             IF edges[i][1] \in DOMAIN imports
             THEN [imports EXCEPT ![edges[i][1]] = @ \cup Range(g.data[edges[i]].imports)]
             ELSE imports @@ (edges[i][1] :> Range(g.data[edges[i]].imports)))

\* imports[dst].update(edge_data.imports), for the edges in turn.
RECURSIVE UpdateImports(_, _, _, _)
UpdateImports(g, edges, i, imports) ==
    IF i > Len(edges) THEN imports
    ELSE UpdateImports(g, edges, i + 1,
             IF edges[i][2] \in DOMAIN imports
             THEN [imports EXCEPT ![edges[i][2]] = @ \cup Range(g.data[edges[i]].imports)]
             ELSE imports @@ (edges[i][2] :> Range(g.data[edges[i]].imports)))

\* The loop over nx.edge_dfs; `edges` are the edges in the order it gave them.
Traverse(c, source) ==
    IF c.err # "ok"
    THEN [err |-> c.err, cache |-> c.cache, imports |-> <<>>, edges |-> <<>>]
    ELSE CHOOSE r \in
             {[err |-> "ok", cache |-> c.cache,
               imports |-> UpdateImports(c.g, edges, 1, <<>>), edges |-> edges] :
                 edges \in {EdgeDfs(c.g, source)}} : TRUE

\* As _resolve_scope_imports, but the import graph is constructed before the
\* start scope is checked against the scope.
ResolveScopeImportsCheckedLate(cache, fs, h, sc, scope, start_scope, skip_lazy) ==
    IF ~IsScopeSubset(h, sc[scope],
                      sc[IF start_scope = "None" THEN scope ELSE start_scope])
    THEN [err |-> "ValueError",
          cache |-> ConstructModuleImportGraph(cache, fs, h[sc[scope]],
                                               skip_lazy).cache,
          imports |-> <<>>, edges |-> <<>>]
    ELSE Traverse(ConstructModuleImportGraph(cache, fs, h[sc[scope]], skip_lazy),
                  SetToSeq(h[sc[IF start_scope = "None" THEN scope
                                ELSE start_scope]].nodes))

\* _resolve_scope_imports; start_scope "None" stands for no start scope given.
ResolveScopeImports(cache, fs, h, sc, scope, start_scope, skip_lazy) ==
    IF ~IsScopeSubset(h, sc[scope],
                      sc[IF start_scope = "None" THEN scope ELSE start_scope])
    THEN [err |-> "ValueError", cache |-> cache, imports |-> <<>>,
          edges |-> <<>>]
    ELSE Traverse(ConstructModuleImportGraph(cache, fs, h[sc[scope]], skip_lazy),
                  SetToSeq(h[sc[IF start_scope = "None" THEN scope
                                ELSE start_scope]].nodes))

(***************************************************************************)
(* The resolver's state machine.  The scopes are fixed: "a" holds the      *)
(* modules found under two search paths and one raw import, "b" is "a"     *)
(* limited to B and its children, "r" holds the modules of one of the      *)
(* search paths loaded under another tag.                                  *)
(***************************************************************************)
MaxImports == 4

\* The import statements a file may hold.
Statements ==
    {[src |-> nB,      target |-> nBb1, is_lazy |-> FALSE, lineno |-> 1],
     [src |-> nB,      target |-> nBb1, is_lazy |-> TRUE,  lineno |-> 2],
     [src |-> nB,      target |-> nOs,  is_lazy |-> FALSE, lineno |-> 3],
     [src |-> nBb1,    target |-> nOs,  is_lazy |-> FALSE, lineno |-> 1],
     [src |-> nBb1,    target |-> nA,   is_lazy |-> TRUE,  lineno |-> 2],
     [src |-> nBb1,    target |-> nBb1, is_lazy |-> FALSE, lineno |-> 3],
     [src |-> nA,      target |-> nOs,  is_lazy |-> TRUE,  lineno |-> 1],
     [src |-> nA,      target |-> nB,   is_lazy |-> FALSE, lineno |-> 2],
     [src |-> nAa3a3i, target |-> nA,   is_lazy |-> FALSE, lineno |-> 1]}

\* A scope after one more call on it; `live` are the graphs other scopes hold.
WithRawImports(st, imports, live) ==
    Tidy(MergeModuleGraph(st.graphs, st.gid, RawImportsGraph(imports)), live)

WithSearchPath(st, path, tag, live) ==
    Tidy(AddModulesFromSearchPath(st.graphs, st.gid, path, tag), live)

\* scope_a = ModulesScope(), then add_modules_from_raw_imports(["A.a1"]),
\* add_modules_from_search_path(pkgs_b) and add_modules_from_search_path(pkgs_gap).
ScopeA ==
    WithSearchPath(
        WithSearchPath(WithRawImports(NewScope(<<>>), <<nAa1>>, {}),
                       "pkgs_b", "None", {}),
        "pkgs_gap", "None", {})

\* scope_b = scope_a.get_restricted_scope(["B"])
WithScopeB(a) ==
    [a |-> a.gid,
     b |-> GetRestrictedScope(a.graphs, a.gid, <<nB>>, "CHILDREN", "LIMIT")]

\* scope_r = ModulesScope(), then add_modules_from_search_path(pkgs_b, tag="t")
WithScopeR(ab) ==
    [a |-> ab.a, b |-> ab.b.gid,
     r |-> WithSearchPath(NewScope(ab.b.graphs), "pkgs_b", "t", {ab.a, ab.b.gid})]

SettleScopes(abr) ==
    Settle(abr.r.graphs, [a |-> abr.a, b |-> abr.b, r |-> abr.r.gid])

ResolveScopes == SettleScopes(WithScopeR(WithScopeB(ScopeA)))

InitResolve ==
    /\ graphs = ResolveScopes.graphs
    /\ scopes = ResolveScopes.scopes
    /\ origin = "none"
    /\ last = NoCall
    /\ nops = 0
    /\ files \in {fs \in SUBSET Statements : Cardinality(fs) <= MaxImports}
    /\ modules_imports = <<>>
    /\ req = NoReq
    /\ out = <<>>
    /\ glob = NoGlob
    /\ env_matchers = <<>>
    /\ lru = <<>>
    /\ run_cfg = NoOutputCfg
    /\ write_obj = NoObj
    /\ ret = NoRet

\* ScopeResolvedImports.from_scope
FromScope(scope, start_scope, skip_lazy) ==
    \E r \in {ResolveScopeImports(modules_imports, files, graphs, scopes,
                                  scope, start_scope, skip_lazy)} :
        /\ modules_imports' = r.cache
        /\ req' = [active |-> TRUE, scope |-> scope, start_scope |-> start_scope,
                   skip_lazy |-> skip_lazy]
        /\ out' = [err |-> r.err, imports |-> r.imports, edges |-> r.edges]
        /\ UNCHANGED <<files, scopeVars, reqsVars>>

NextResolve ==
    \E scope \in Slots, start_scope \in Slots \cup {"None"}, skip_lazy \in BOOLEAN :
        FromScope(scope, start_scope, skip_lazy)

SpecResolve == InitResolve /\ [][NextResolve]_vars

(***************************************************************************)
(* The loader's state machine: DEFAULT_MODULE_IMPORTS_LOADER is asked for  *)
(* the imports of modules, by module records that may share a name, while  *)
(* the files of the modules are edited on disk between the calls.          *)
(***************************************************************************)
MaxLoads == 3

\* The module records asked for: B as two scans of pkgs_b tagged it, and B.b1.
LoadedModules ==
    {ModuleMetadata(nB, "pkgs_b", "None"), ModuleMetadata(nB, "pkgs_b", "t"),
     ModuleMetadata(nBb1, "pkgs_b", "None")}

\* The import statements that the files of B and B.b1 may hold.
LoadStatements == {x \in Statements : x.src \in {nB, nBb1}}

InitLoad ==
    /\ graphs = <<>>
    /\ scopes = <<>>
    /\ origin = "none"
    /\ last = NoCall
    /\ nops = 0
    /\ files \in {fs \in SUBSET LoadStatements : Cardinality(fs) <= 1}
    /\ modules_imports = <<>>
    /\ req = NoReq
    /\ out = <<>>
    /\ glob = NoGlob
    /\ env_matchers = <<>>
    /\ lru = <<>>
    /\ run_cfg = NoOutputCfg
    /\ write_obj = NoObj
    /\ ret = NoRet

\* DEFAULT_MODULE_IMPORTS_LOADER.load_module_imports(module_info)
LoadImports(module_info) ==
    LET l == LoadModuleImports(modules_imports, files, module_info)
    IN  /\ nops < MaxLoads
        /\ nops' = nops + 1
        /\ modules_imports' = l.cache
        /\ ret' = [op |-> "load", module_info |-> module_info, err |-> l.err,
                   v |-> IF l.err = "ok" THEN l.v ELSE [raised |-> l.err]]
        /\ UNCHANGED <<files, req, out, graphs, scopes, origin, last, glob,
                       env_matchers, lru, run_cfg, write_obj>>

\* An import statement is written into the file of a module.
EditFile(stmt) ==
    /\ stmt \notin files
    /\ Cardinality(files) < MaxImports
    /\ files' = files \cup {stmt}
    /\ UNCHANGED <<modules_imports, req, out, scopeVars, reqsVars>>

NextLoad ==
    \/ \E module_info \in LoadedModules : LoadImports(module_info)
    \/ \E stmt \in LoadStatements : EditFile(stmt)

SpecLoad == InitLoad /\ [][NextLoad]_vars

(***************************************************************************)
(* The scanner's state machine: _find_modules is called on lists of search *)
(* and package paths, with reachable_only given or left out.               *)
(***************************************************************************)
FindDirs == {"pkgs_b", "pkgs_gap", "pkgs_orphan", "nowhere"}

FindPathLists ==
    {<<>>} \cup {<<p>> : p \in FindDirs} \cup {<<p, q>> : p \in FindDirs, q \in FindDirs}

\* reachable_only as passed: "omitted" stands for the argument left out.
FindPolicies == {"omitted", "False", "True"}

InitFind ==
    /\ graphs = <<>>
    /\ scopes = <<>>
    /\ origin = "none"
    /\ last = NoCall
    /\ nops = 0
    /\ files = NoFiles
    /\ modules_imports = <<>>
    /\ req = NoReq
    /\ out = <<>>
    /\ glob = NoGlob
    /\ env_matchers = <<>>
    /\ lru = <<>>
    /\ run_cfg = NoOutputCfg
    /\ write_obj = NoObj
    /\ ret = NoRet

\* _find_modules(search_paths, package_paths, tag="test"[, reachable_only])
FindModulesCall(search_paths, package_paths, reachable_only) ==
    \E f \in {FindModules(search_paths, package_paths, "test",
                          reachable_only = "True")} :
        /\ ret = NoRet
        /\ ret' = [op |-> "find_modules", search_paths |-> search_paths,
                   package_paths |-> package_paths,
                   reachable_only |-> reachable_only, err |-> f.err,
                   nodes |-> IF f.err = "ok" THEN f.g.nodes ELSE {},
                   edges |-> IF f.err = "ok" THEN f.g.edges ELSE {}]
        /\ UNCHANGED <<glob, env_matchers, lru, run_cfg, write_obj, scopeVars,
                       resolveVars>>

NextFind ==
    \E search_paths \in FindPathLists, package_paths \in FindPathLists,
       reachable_only \in FindPolicies :
        /\ Len(search_paths) + Len(package_paths) <= 2
        /\ FindModulesCall(search_paths, package_paths, reachable_only)

SpecFind == InitFind /\ [][NextFind]_vars

(***************************************************************************)
(* Import matchers.  An ImportMatcherGlob is a dotted name, or a dotted    *)
(* name followed by ".*".                                                  *)
(***************************************************************************)
GlobValueError(import_glob) == [err |-> "ValueError", orig |-> import_glob]

\* As ImportMatcherGlob.__init__, but the last part may be "*" whether or not
\* other parts come before it.
ImportMatcherGlobLoneWildcard(import_glob) ==
    LET parts == SubSeq(Split(import_glob), 1, Len(Split(import_glob)) - 1)
        lastPart == Split(import_glob)[Len(Split(import_glob))]
    IN  IF ~(\A i \in 1..Len(parts) : IsIdentifier(parts[i]))
        THEN GlobValueError(import_glob)
        ELSE IF ~(IsIdentifier(lastPart) \/ lastPart = <<"*">>)
        THEN GlobValueError(import_glob)
        ELSE IF lastPart = <<"*">>
        THEN [err |-> "ok", orig |-> import_glob, parts |-> parts,
              wildcard |-> TRUE, base |-> Join(parts)]
        ELSE [err |-> "ok", orig |-> import_glob, parts |-> Append(parts, lastPart),
              wildcard |-> FALSE, base |-> Join(Append(parts, lastPart))]

\* ImportMatcherGlob.__init__: (*parts, lastPart) = import_glob.split(".")
ImportMatcherGlob(import_glob) ==
    LET parts == SubSeq(Split(import_glob), 1, Len(Split(import_glob)) - 1)
        lastPart == Split(import_glob)[Len(Split(import_glob))]
    IN  IF Len(parts) > 0 /\ ~(\A i \in 1..Len(parts) : IsIdentifier(parts[i]))
        THEN GlobValueError(import_glob)
        ELSE IF Len(parts) > 0 /\ ~(IsIdentifier(lastPart) \/ lastPart = <<"*">>)
        THEN GlobValueError(import_glob)
        ELSE IF Len(parts) = 0 /\ ~IsIdentifier(lastPart)
        THEN GlobValueError(import_glob)
        ELSE IF lastPart = <<"*">>
        THEN [err |-> "ok", orig |-> import_glob, parts |-> parts,
              wildcard |-> TRUE, base |-> Join(parts)]
        ELSE [err |-> "ok", orig |-> import_glob, parts |-> Append(parts, lastPart),
              wildcard |-> FALSE, base |-> Join(Append(parts, lastPart))]

\* lst[:n]
Take(lst, n) == SubSeq(lst, 1, IF n < Len(lst) THEN n ELSE Len(lst))

\* As ImportMatcherGlob.match, but a wildcard compares the characters of the
\* base with the start of the import.
GlobMatchByChars(m, import_) ==
    IF ~m.wildcard THEN import_ = m.base
    ELSE m.base = Take(import_, Len(m.base))

\* ImportMatcherGlob.match
GlobMatch(m, import_) ==
    IF ~m.wildcard THEN import_ = m.base
    ELSE m.parts = Take(Split(import_), Len(m.parts))

(***************************************************************************)
(* RequirementsMapper: per environment, an ordered list of (requirement,   *)
(* matcher) pairs; an import maps to the requirement of the first pair     *)
(* whose matcher accepts it.                                               *)
(***************************************************************************)
DEFAULT_REQUIREMENTS_ENV == "default"

\* BUILTIN_MODULE_NAMES, over the names the model uses.
BUILTIN_MODULE_NAMES == {nOs}

ImportMatcherScope(scope) == [scope |-> scope]

\* ModulesScope.has_module
HasModule(g, module_name) == module_name \in g.nodes

\* matcher.match(import_), by the class of the matcher
MatcherMatch(matcher, import_) ==
    IF "scope" \in DOMAIN matcher THEN HasModule(matcher.scope, import_)
    ELSE GlobMatch(matcher, import_)

ReqInfo(requirement, has_mapping) ==
    [requirement |-> requirement, has_mapping |-> has_mapping]

ReqMatcher(requirement, matcher) ==
    [requirement |-> requirement, matcher |-> matcher]

\* As the scan of a matcher list, but the last accepting pair is taken.
RECURSIVE LastMatch(_, _, _)
LastMatch(matchers, import_, i) ==
    IF i > Len(matchers) THEN 0
    ELSE IF LastMatch(matchers, import_, i + 1) # 0
    THEN LastMatch(matchers, import_, i + 1)
    ELSE IF MatcherMatch(matchers[i].matcher, import_) THEN i
    ELSE 0

\* for rm in matchers: if rm.matcher.match(import_): return ...
\* The index of the pair that returns, 0 when the loop runs out.
RECURSIVE FirstMatch(_, _, _)
FirstMatch(matchers, import_, i) ==
    IF i > Len(matchers) THEN 0
    ELSE IF MatcherMatch(matchers[i].matcher, import_) THEN i
    ELSE FirstMatch(matchers, import_, i + 1)

\* self._env_matchers.get(env, [])
GetMatchers(matchers, env) ==
    IF env \in DOMAIN matchers THEN matchers[env] ELSE <<>>

\* import_.split(".")[0]
ImportRoot(import_) == Split(import_)[1]

Mapped(info) ==
    [err |-> "ok", info |-> info, imports |-> {}, warnings |-> <<>>]

MapRaises(err, imports) ==
    [err |-> err, info |-> ReqInfo(<<>>, FALSE), imports |-> imports,
     warnings |-> <<>>]

\* As the body of map_import_to_requirement_info, but the default environment
\* is scanned before the requested one.
MapImportDefaultFirst(matchers, import_, requirements_env, strict) ==
    LET env == IF requirements_env = "None" THEN DEFAULT_REQUIREMENTS_ENV
               ELSE requirements_env
        dflt == GetMatchers(matchers, DEFAULT_REQUIREMENTS_ENV)
    IN  IF env # DEFAULT_REQUIREMENTS_ENV /\ env \notin DOMAIN matchers
        THEN MapRaises("ValueError", {})
        ELSE IF FirstMatch(dflt, import_, 1) # 0
        THEN Mapped(ReqInfo(dflt[FirstMatch(dflt, import_, 1)].requirement, TRUE))
        ELSE IF /\ env # DEFAULT_REQUIREMENTS_ENV
                /\ FirstMatch(matchers[env], import_, 1) # 0
        THEN Mapped(ReqInfo(
                 matchers[env][FirstMatch(matchers[env], import_, 1)].requirement,
                 TRUE))
        ELSE IF strict
        THEN MapRaises("NoConfiguredRequirementMappingError", {import_})
        ELSE [err |-> "ok", info |-> ReqInfo(ImportRoot(import_), FALSE),
              imports |-> {}, warnings |-> <<import_>>]

\* The body of map_import_to_requirement_info: what one computation returns or
\* raises, and the warnings it emits; requirements_env "None" stands for None.
MapImportUncached(matchers, import_, requirements_env, strict) ==
    LET env == IF requirements_env = "None" THEN DEFAULT_REQUIREMENTS_ENV
               ELSE requirements_env
        dflt == GetMatchers(matchers, DEFAULT_REQUIREMENTS_ENV)
    IN  IF env # DEFAULT_REQUIREMENTS_ENV /\ env \notin DOMAIN matchers
        THEN MapRaises("ValueError", {})
        ELSE IF /\ env # DEFAULT_REQUIREMENTS_ENV
                /\ FirstMatch(matchers[env], import_, 1) # 0
        THEN Mapped(ReqInfo(
                 matchers[env][FirstMatch(matchers[env], import_, 1)].requirement,
                 TRUE))
        ELSE IF FirstMatch(dflt, import_, 1) # 0
        THEN Mapped(ReqInfo(dflt[FirstMatch(dflt, import_, 1)].requirement, TRUE))
        ELSE IF strict
        THEN MapRaises("NoConfiguredRequirementMappingError", {import_})
        ELSE [err |-> "ok", info |-> ReqInfo(ImportRoot(import_), FALSE),
              imports |-> {}, warnings |-> <<import_>>]

\* functools.lru_cache around map_import_to_requirement_info: a call with
\* arguments seen before returns the stored value and the body does not run;
\* a call that raises stores nothing.
MapImportToRequirementInfo(cache, matchers, import_, requirements_env, strict) ==
    IF <<import_, requirements_env, strict>> \in DOMAIN cache
    THEN [r |-> Mapped(cache[<<import_, requirements_env, strict>>]),
          lru |-> cache]
    ELSE [r |-> MapImportUncached(matchers, import_, requirements_env, strict),
          lru |-> IF MapImportUncached(matchers, import_, requirements_env,
                                       strict).err = "ok"
                  THEN cache @@ (<<import_, requirements_env, strict>> :>
                           MapImportUncached(matchers, import_, requirements_env,
                                             strict).info)
                  ELSE cache]

\* ScopeResolvedImports._filter_keys
FilterKeysAnyScope(h, sc, scope, keys, exclude_in_search_space, exclude_builtins) ==
    (keys \ (IF exclude_in_search_space
             THEN UNION {h[sc[s]].nodes : s \in DOMAIN sc} ELSE {}))
        \ (IF exclude_builtins THEN BUILTIN_MODULE_NAMES ELSE {})

FilterKeys(h, sc, scope, keys, exclude_in_search_space, exclude_builtins) ==
    (keys \ (IF exclude_in_search_space THEN h[sc[scope]].nodes ELSE {}))
        \ (IF exclude_builtins THEN BUILTIN_MODULE_NAMES ELSE {})

(***************************************************************************)
(* The resolver's machine with the filter: a resolution is made as above   *)
(* and _filter_keys is called on the keys of its get_imports(); the files  *)
(* hold imports of a module of the scope, of a built-in name and of a      *)
(* module of another scope.                                                *)
(***************************************************************************)
FilterStatements ==
    {x \in Statements :
        \/ x.src = nB /\ ~x.is_lazy
        \/ x.src = nBb1 /\ x.target = nA}

InitFilter ==
    /\ graphs = ResolveScopes.graphs
    /\ scopes = ResolveScopes.scopes
    /\ origin = "none"
    /\ last = NoCall
    /\ nops = 0
    /\ files \in SUBSET FilterStatements
    /\ modules_imports = <<>>
    /\ req = NoReq
    /\ out = <<>>
    /\ glob = NoGlob
    /\ env_matchers = <<>>
    /\ lru = <<>>
    /\ run_cfg = NoOutputCfg
    /\ write_obj = NoObj
    /\ ret = NoRet

\* resolved._filter_keys(resolved.get_imports(), ...), and the occurrences
\* get_imports() holds under the keys that remain.
FilterKeysCall(exclude_in_search_space, exclude_builtins) ==
    /\ req.active
    /\ out.err = "ok"
    /\ \E keys \in {FilterKeys(graphs, scopes, req.scope, DOMAIN out.imports,
                               exclude_in_search_space, exclude_builtins)} :
        /\ ret' = [op |-> "filter_keys", scope |-> req.scope,
                   start_scope |-> req.start_scope, skip_lazy |-> req.skip_lazy,
                   exclude_in_search_space |-> exclude_in_search_space,
                   exclude_builtins |-> exclude_builtins,
                   unfiltered |-> out.imports, keys |-> keys,
                   imports |-> [k \in keys |-> out.imports[k]]]
        /\ UNCHANGED <<glob, env_matchers, lru, run_cfg, write_obj, scopeVars,
                       resolveVars>>

NextFilter ==
    \/ \E scope \in Slots, start_scope \in Slots \cup {"None"}, skip_lazy \in BOOLEAN :
           FromScope(scope, start_scope, skip_lazy)
    \/ \E exclude_in_search_space \in BOOLEAN, exclude_builtins \in BOOLEAN :
           FilterKeysCall(exclude_in_search_space, exclude_builtins)

SpecFilter == InitFilter /\ [][NextFilter]_vars

(***************************************************************************)
(* Output requirements: the imports resolved from a start scope are mapped *)
(* to requirements, and each requirement gets a write mode from the write  *)
(* rules.                                                                  *)
(***************************************************************************)
WriteModes == {"include", "comment", "exclude"}

\* _WRITE_PRIORITIES
Priority(mode) ==
    IF mode = "include" THEN 0 ELSE IF mode = "comment" THEN 1 ELSE 2

\* max(mode, other, key=lambda x: x.priority): the first of the largest
MaxMode(mode, other) == IF Priority(other) > Priority(mode) THEN other ELSE mode

WriteRules(write_mode_is_builtin, write_mode_start_scope, write_mode_is_lazy) ==
    [write_mode_is_builtin |-> write_mode_is_builtin,
     write_mode_start_scope |-> write_mode_start_scope,
     write_mode_is_lazy |-> write_mode_is_lazy]

\* The dataclass WriteRequirementSourceModule; facts holds all_lazy and the
\* four any_..._scope fields.
WriteRequirementSourceModule(source_module, source_module_imports, target_imports, facts, is_builtin, write_mode) ==
    [source_module |-> source_module,
     source_module_imports |-> source_module_imports,
     target_imports |-> target_imports,
     all_lazy |-> facts.all_lazy,
     any_target_in_parent_scope |-> facts.any_target_in_parent_scope,
     any_target_in_start_scope |-> facts.any_target_in_start_scope,
     any_source_in_parent_scope |-> facts.any_source_in_parent_scope,
     any_source_in_start_scope |-> facts.any_source_in_start_scope,
     is_builtin |-> is_builtin,
     write_mode |-> write_mode]

\* The dataclass WriteRequirement
WriteRequirement(requirement, source_modules, is_builtin, write_mode) ==
    [requirement |-> requirement, source_modules |-> source_modules,
     is_builtin |-> is_builtin, write_mode |-> write_mode]

\* WriteRequirementSourceModule.apply_write_rules
SourceApplyWriteRules(self, rules) ==
    LET m1 == IF self.is_builtin
              THEN MaxMode(self.write_mode, rules.write_mode_is_builtin)
              ELSE self.write_mode
        m2 == IF self.all_lazy THEN MaxMode(m1, rules.write_mode_is_lazy) ELSE m1
    IN  [self EXCEPT !.write_mode = m2]

\* The properties of WriteRequirement over its source modules.
ReqAllLazy(self) ==
    \A i \in 1..Len(self.source_modules) : self.source_modules[i].all_lazy

ReqAnyTargetInStartScope(self) ==
    \E i \in 1..Len(self.source_modules) :
        self.source_modules[i].any_target_in_start_scope

\* As WriteRequirement.apply_write_rules, but a rule whose condition holds
\* sets the mode instead of raising it.
RequirementApplyWriteRulesLastWins(self, rules) ==
    LET m1 == IF self.is_builtin THEN rules.write_mode_is_builtin
              ELSE self.write_mode
        m2 == IF ReqAnyTargetInStartScope(self) THEN rules.write_mode_start_scope
              ELSE m1
        m3 == IF ReqAllLazy(self) THEN rules.write_mode_is_lazy ELSE m2
    IN  [self EXCEPT !.write_mode = m3]

\* WriteRequirement.apply_write_rules
RequirementApplyWriteRules(self, rules) ==
    LET m1 == IF self.is_builtin
              THEN MaxMode(self.write_mode, rules.write_mode_is_builtin)
              ELSE self.write_mode
        m2 == IF ReqAnyTargetInStartScope(self)
              THEN MaxMode(m1, rules.write_mode_start_scope)
              ELSE m1
        m3 == IF ReqAllLazy(self) THEN MaxMode(m2, rules.write_mode_is_lazy)
              ELSE m2
    IN  [self EXCEPT !.write_mode = m3]

(***************************************************************************)
(* read_and_dump_toml_imports: the array of the output file is cleared and *)
(* the requirements are written into it, a line at a time.  A line holds   *)
(* an array item or none (<<>>), and a comment made of the quoted name     *)
(* (or none), the letters of the active modes and a prefix.                *)
(***************************************************************************)
\* add_line: under all_comment the line has no item and its name goes quoted
\* into the comment, after the modes unless comment_after.
AddLine(section, line, modes, prefix, indents, all_comment, comment_after) ==
    Append(section,
           [item |-> IF all_comment THEN <<>> ELSE line,
            quoted |-> IF all_comment THEN line ELSE <<>>,
            quoted_first |-> all_comment /\ comment_after,
            modes |-> modes,
            prefix |-> prefix,
            indent |-> 4 * indents])

\* str_modes_active: L, then e or E for a source outside the start scope,
\* then B.
StrModesActive(all_lazy, any_source_in_start_scope, any_source_in_parent_scope, is_builtin) ==
    (IF all_lazy THEN <<"L">> ELSE <<>>)
        \o (IF any_source_in_start_scope THEN <<>>
            ELSE IF any_source_in_parent_scope THEN <<"e">> ELSE <<"E">>)
        \o (IF is_builtin THEN <<"B">> ELSE <<>>)

ReqAnySourceInStartScope(self) ==
    \E i \in 1..Len(self.source_modules) :
        self.source_modules[i].any_source_in_start_scope

ReqAnySourceInParentScope(self) ==
    \E i \in 1..Len(self.source_modules) :
        self.source_modules[i].any_source_in_parent_scope

\* The loop over req.source_modules: an excluded source is skipped.
RECURSIVE AddSourceLines(_, _, _)
AddSourceLines(section, source_modules, i) ==
    IF i > Len(source_modules) THEN section
    ELSE LET src == source_modules[i]
         IN  AddSourceLines(
                 IF src.write_mode = "exclude" THEN section
                 ELSE AddLine(section, src.source_module,
                              StrModesActive(src.all_lazy,
                                             src.any_source_in_start_scope,
                                             src.any_source_in_parent_scope,
                                             src.is_builtin),
                              "<-", 2, TRUE, FALSE),
                 source_modules, i + 1)

\* The lines of one requirement: its own line, commented out under comment,
\* then its sources.
AddRequirementLines(section, r) ==
    AddSourceLines(
        AddLine(section, r.requirement,
                StrModesActive(ReqAllLazy(r), ReqAnySourceInStartScope(r),
                               ReqAnySourceInParentScope(r), r.is_builtin),
                "", 1, r.write_mode = "comment", TRUE),
        r.source_modules, 1)

\* As the loop over the requirements, but an excluded requirement is written
\* as a commented line.
RECURSIVE AddRequirementsCommentExcluded(_, _, _)
AddRequirementsCommentExcluded(section, requirements, i) ==
    IF i > Len(requirements) THEN section
    ELSE AddRequirementsCommentExcluded(
             AddRequirementLines(
                 section,
                 IF requirements[i].write_mode = "exclude"
                 THEN [requirements[i] EXCEPT !.write_mode = "comment"]
                 ELSE requirements[i]),
             requirements, i + 1)

\* The loop over the requirements: an excluded requirement is skipped, with
\* its sources.
RECURSIVE AddRequirements(_, _, _)
AddRequirements(section, requirements, i) ==
    IF i > Len(requirements) THEN section
    ELSE AddRequirements(
             IF requirements[i].write_mode = "exclude" THEN section
             ELSE AddRequirementLines(section, requirements[i]),
             requirements, i + 1)

AutogenNotice ==
    [item |-> <<>>, quoted |-> <<>>, quoted_first |-> FALSE,
     modes |-> <<"AUTOGEN">>, prefix |-> "", indent |-> 4]

BlankLine ==
    [item |-> <<>>, quoted |-> <<>>, quoted_first |-> FALSE, modes |-> <<>>,
     prefix |-> "", indent |-> 0]

\* read_and_dump_toml_imports: the array that is written to the file.
ReadAndDumpTomlImports(requirements) ==
    IF requirements = <<>> THEN <<>>
    ELSE Append(AddRequirements(<<AutogenNotice>>, requirements, 1), BlankLine)

(***************************************************************************)
(* The glob matcher's state machine: a glob is constructed from a pattern, *)
(* and imports are matched against the glob that was constructed.          *)
(***************************************************************************)
GlobPatterns ==
    {<<"A">>,
     <<"B">>,
     <<"A", "B">>,
     <<"A", ".", "a", "1">>,
     <<"A", ".", "a", "3", ".", "a", "3", "i">>,
     <<"a", "s", "d", "f", ".", "f", "d", "s", "a">>,
     <<"A", ".", "*">>,
     <<"B", ".", "*">>,
     <<"A", ".", "a", "1", ".", "*">>,
     <<"A", ".", "a", "2", ".", "*">>,
     <<"A", ".", "a", "3", ".", "*">>,
     <<"A", ".", "*", ".", "*">>,
     <<".", "*">>,
     <<"A", ".">>,
     <<"a", "s", "d", "f", "-", "f", "d", "s", "a">>,
     <<"*">>,
     <<>>,
     <<"*", ".", "A">>,
     <<"A", ".", ".", "a", "1">>,
     <<"1", "a">>,
     <<"A", ".", "*", "*">>,
     <<"A", ".", "*", "a">>}

GlobImports ==
    {nA, nAa1, nAa1asdf, nAa2, nAa3, nAa3a3i, nAB, nABx, nB, nBb1, nOs,
     nAsdfFdsa}

InitGlob ==
    /\ graphs = <<>>
    /\ scopes = <<>>
    /\ origin = "none"
    /\ last = NoCall
    /\ nops = 0
    /\ files = NoFiles
    /\ modules_imports = <<>>
    /\ req = NoReq
    /\ out = <<>>
    /\ glob = NoGlob
    /\ env_matchers = <<>>
    /\ lru = <<>>
    /\ run_cfg = NoOutputCfg
    /\ write_obj = NoObj
    /\ ret = NoRet

\* ImportMatcherGlob(import_glob)
NewGlob(import_glob) ==
    /\ glob' = ImportMatcherGlob(import_glob)
    /\ ret' = NoRet
    /\ UNCHANGED <<env_matchers, lru, run_cfg, write_obj, scopeVars, resolveVars>>

\* glob.match(import_), on a glob whose construction returned
Match(import_) ==
    /\ glob.err = "ok"
    /\ ret' = [op |-> "match", import_ |-> import_,
               matched |-> GlobMatch(glob, import_)]
    /\ UNCHANGED <<glob, env_matchers, lru, run_cfg, write_obj, scopeVars,
                 resolveVars>>

NextGlob ==
    \/ \E import_glob \in GlobPatterns : NewGlob(import_glob)
    \/ \E import_ \in GlobImports : Match(import_)

SpecGlob == InitGlob /\ [][NextGlob]_vars

\* LocImportInfo.root_target and LocImportInfo.source_name
RootTarget(imp) == Split(imp.target)[1]

SourceName(imp) == imp.source_module_info.name

\* req_group.sources.setdefault(imp.source_name, []).append(imp)
AddSource(sources, imp) ==
    IF SourceName(imp) \in DOMAIN sources
    THEN [sources EXCEPT ![SourceName(imp)] = Append(@, imp)]
    ELSE sources @@ (SourceName(imp) :> <<imp>>)

\* get or create the group of the requirement, then append the source
AddToGroup(requirements, info, imp) ==
    IF info.requirement \in DOMAIN requirements
    THEN [requirements EXCEPT ![info.requirement].sources = AddSource(@, imp)]
    ELSE requirements @@
             (info.requirement :>
                 [requirement |-> info.requirement,
                  has_mapping |-> info.has_mapping,
                  sources |-> AddSource(<<>>, imp)])

\* The loop of _group_imports_by_mapped_requirements over imports[i..]: a
\* NoConfiguredRequirementMappingError is kept and the loop continues, any
\* other error leaves the loop.
RECURSIVE GroupLoop(_, _, _, _, _, _)
GroupLoop(acc, matchers, imports, i, requirements_env, strict) ==
    IF i > Len(imports) \/ acc.err # "ok" THEN acc
    ELSE IF imports[i].target \in BUILTIN_MODULE_NAMES
    THEN GroupLoop([acc EXCEPT
                       !.requirements =
                           AddToGroup(@, ReqInfo(imports[i].target, FALSE),
                                      imports[i]),
                       !.seen = Append(@, imports[i].target)],
                   matchers, imports, i + 1, requirements_env, strict)
    ELSE IF RootTarget(imports[i]) \in BUILTIN_MODULE_NAMES
    THEN GroupLoop([acc EXCEPT
                       !.requirements =
                           AddToGroup(@, ReqInfo(RootTarget(imports[i]), FALSE),
                                      imports[i]),
                       !.seen = Append(@, imports[i].target)],
                   matchers, imports, i + 1, requirements_env, strict)
    ELSE LET m == MapImportToRequirementInfo(acc.lru, matchers, imports[i].target,
                                             requirements_env, strict)
         IN  IF m.r.err = "NoConfiguredRequirementMappingError"
             THEN GroupLoop([acc EXCEPT !.errors = Append(@, m.r.imports),
                                        !.seen = Append(@, imports[i].target)],
                            matchers, imports, i + 1, requirements_env, strict)
             ELSE IF m.r.err # "ok"
             THEN [acc EXCEPT !.err = m.r.err,
                              !.seen = Append(@, imports[i].target)]
             ELSE GroupLoop([acc EXCEPT
                                !.lru = m.lru,
                                !.requirements =
                                    AddToGroup(@, m.r.info, imports[i]),
                                !.warnings = @ \o m.r.warnings,
                                !.seen = Append(@, imports[i].target)],
                            matchers, imports, i + 1, requirements_env, strict)

\* What the loop leaves: a propagated error, the one error raised after the
\* loop for the kept errors, or the groups.
GroupOutcome(acc) ==
    IF acc.err # "ok"
    THEN [err |-> acc.err, imports |-> {}, roots |-> {}, requirements |-> <<>>,
          lru |-> acc.lru, warnings |-> acc.warnings, seen |-> acc.seen]
    ELSE IF Len(acc.errors) > 0
    THEN [err |-> "NoConfiguredRequirementMappingError",
          imports |-> UNION Range(acc.errors),
          roots |-> {ImportRoot(x) : x \in UNION Range(acc.errors)},
          requirements |-> <<>>,
          lru |-> acc.lru, warnings |-> acc.warnings, seen |-> acc.seen]
    ELSE [err |-> "ok", imports |-> {}, roots |-> {},
          requirements |-> acc.requirements,
          lru |-> acc.lru, warnings |-> acc.warnings, seen |-> acc.seen]

\* RequirementsMapper._group_imports_by_mapped_requirements
GroupImportsByMappedRequirements(cache, matchers, imports, requirements_env, strict) ==
    GroupOutcome(GroupLoop([lru |-> cache, requirements |-> <<>>,
                            errors |-> <<>>, warnings |-> <<>>, err |-> "ok",
                            seen |-> <<>>],
                           matchers, imports, 1, requirements_env, strict))

(***************************************************************************)
(* The mapper's state machine: a mapper is constructed with one of the     *)
(* matcher configurations, then imports are mapped one at a time or        *)
(* grouped as a batch.                                                     *)
(***************************************************************************)
MaxCalls == 2

\* The matchers of the default environment, in order, and those of "extra".
DefaultMatchers ==
    <<ReqMatcher(rGlobAa3, ImportMatcherGlob(<<"A", ".", "a", "3", ".", "*">>)),
      ReqMatcher(rGlobAa1, ImportMatcherGlob(nAa1asdf)),
      ReqMatcher(rGlobA, ImportMatcherGlob(<<"A", ".", "*">>)),
      ReqMatcher(rGlobAa2, ImportMatcherGlob(<<"A", ".", "a", "2", ".", "*">>)),
      ReqMatcher(rScopeB, ImportMatcherScope(RawImportsGraph(PkgB)))>>

ExtraMatchers ==
    <<ReqMatcher(rExtraAa2, ImportMatcherGlob(<<"A", ".", "a", "2", ".", "*">>)),
      ReqMatcher(rExtraB, ImportMatcherGlob(<<"B", ".", "*">>))>>

\* env_matchers as _validate_env_matchers leaves them: both environments,
\* "extra" alone, and none.
MapperConfigs ==
    {[default |-> DefaultMatchers, extra |-> ExtraMatchers],
     [extra |-> ExtraMatchers],
     <<>>}

MapEnvs == {"None", "default", "extra", "other"}

MapImports == {nAa2, nAa3a3i, nBb1, nAsdfFdsa, nABx}

\* The occurrence of an import of target in the file of module src.
Occurrence(src, target, lineno) ==
    LocImportInfo(ModuleMetadata(src, "pkgs_b", "None"),
                  [target |-> target, is_lazy |-> FALSE, lineno |-> lineno])

ImportBatches ==
    {<<Occurrence(nB, nAsdfFdsa, 1), Occurrence(nB, nAa2, 2),
       Occurrence(nBb1, nABx, 1)>>,
     <<Occurrence(nB, nOs, 1), Occurrence(nBb1, nAa2, 1)>>,
     <<Occurrence(nB, nABx, 1), Occurrence(nB, nABx, 2)>>}

InitMap ==
    /\ graphs = <<>>
    /\ scopes = <<>>
    /\ origin = "none"
    /\ last = NoCall
    /\ nops = 0
    /\ files = NoFiles
    /\ modules_imports = <<>>
    /\ req = NoReq
    /\ out = <<>>
    /\ glob = NoGlob
    /\ env_matchers \in MapperConfigs
    /\ lru = <<>>
    /\ run_cfg = NoOutputCfg
    /\ write_obj = NoObj
    /\ ret = NoRet

\* mapper.map_import_to_requirement_info(import_, requirements_env=..., strict=...)
MapImport(import_, requirements_env, strict) ==
    LET m == MapImportToRequirementInfo(lru, env_matchers, import_,
                                        requirements_env, strict)
    IN  /\ nops < MaxCalls
        /\ nops' = nops + 1
        /\ lru' = m.lru
        /\ ret' = [op |-> "map", import_ |-> import_,
                   requirements_env |-> requirements_env, strict |-> strict,
                   err |-> m.r.err, info |-> m.r.info, imports |-> m.r.imports,
                   warnings |-> m.r.warnings]
        /\ UNCHANGED <<graphs, scopes, origin, last, resolveVars, glob,
                       env_matchers, run_cfg, write_obj>>

\* mapper._group_imports_by_mapped_requirements(imports, requirements_env=...,
\* strict=...)
GroupImports(imports, requirements_env, strict) ==
    LET g == GroupImportsByMappedRequirements(lru, env_matchers, imports,
                                              requirements_env, strict)
    IN  /\ nops < MaxCalls
        /\ nops' = nops + 1
        /\ lru' = g.lru
        /\ ret' = [op |-> "group", batch |-> imports,
                   requirements_env |-> requirements_env, strict |-> strict,
                   err |-> g.err, imports |-> g.imports, roots |-> g.roots,
                   requirements |-> g.requirements, warnings |-> g.warnings,
                   seen |-> g.seen]
        /\ UNCHANGED <<graphs, scopes, origin, last, resolveVars, glob,
                       env_matchers, run_cfg, write_obj>>

NextMap ==
    \/ \E import_ \in MapImports, requirements_env \in MapEnvs, strict \in BOOLEAN :
           MapImport(import_, requirements_env, strict)
    \/ \E imports \in ImportBatches, requirements_env \in MapEnvs,
          strict \in BOOLEAN :
           GroupImports(imports, requirements_env, strict)

SpecMap == InitMap /\ [][NextMap]_vars

(***************************************************************************)
(* The write rules' state machine: the rules are applied to a source       *)
(* module or to a requirement as generate_output_requirements builds them, *)
(* with write mode include, for every combination of the facts.            *)
(***************************************************************************)
MaxSources == 2

AllWriteRules ==
    {WriteRules(b, s, l) : b \in WriteModes, s \in WriteModes, l \in WriteModes}

\* The source modules of a requirement: a target in the start scope is in
\* the parent scope too, and so is a source.
SourceFacts ==
    {f \in [all_lazy : BOOLEAN, any_target_in_parent_scope : BOOLEAN,
            any_target_in_start_scope : BOOLEAN,
            any_source_in_parent_scope : {TRUE},
            any_source_in_start_scope : {TRUE}] :
        f.any_target_in_start_scope = f.any_target_in_parent_scope}

SourceModules ==
    {WriteRequirementSourceModule(nB, {}, <<>>, f, b, "include") :
        f \in SourceFacts, b \in BOOLEAN}

\* The source modules after their own apply_write_rules, as they are when the
\* requirement is built.
SourceModuleLists(rules) ==
    UNION {[1..n -> {SourceApplyWriteRules(x, rules) : x \in SourceModules}] :
              n \in 1..MaxSources}

\* The objects the rules are applied to, as generate_output_requirements
\* builds them under the rules of the output.
WriteObjects(rules) ==
    {[kind |-> "source", self |-> x] : x \in SourceModules}
        \cup {[kind |-> "requirement",
               self |-> WriteRequirement(rGlobA, l, b, "include")] :
                 l \in SourceModuleLists(rules), b \in BOOLEAN}

InitRules ==
    /\ graphs = <<>>
    /\ scopes = <<>>
    /\ origin = "none"
    /\ last = NoCall
    /\ nops = 0
    /\ files = NoFiles
    /\ modules_imports = <<>>
    /\ req = NoReq
    /\ out = <<>>
    /\ glob = NoGlob
    /\ env_matchers = <<>>
    /\ lru = <<>>
    /\ run_cfg \in {[strict_requirements_map |-> TRUE, write_rules |-> r] :
                       r \in AllWriteRules}
    /\ write_obj \in WriteObjects(run_cfg.write_rules)
    /\ ret = NoRet

\* write_src.apply_write_rules(write_rules)
ApplySourceRules ==
    /\ write_obj.kind = "source"
    /\ ret = NoRet
    /\ ret' = [op |-> "source_rules",
               result |-> SourceApplyWriteRules(write_obj.self, run_cfg.write_rules)]
    /\ UNCHANGED <<glob, env_matchers, lru, run_cfg, write_obj, scopeVars,
                   resolveVars>>

\* write_req.apply_write_rules(write_rules)
ApplyRequirementRules ==
    /\ write_obj.kind = "requirement"
    /\ ret = NoRet
    /\ ret' = [op |-> "requirement_rules",
               result |-> RequirementApplyWriteRules(write_obj.self,
                                                     run_cfg.write_rules)]
    /\ UNCHANGED <<glob, env_matchers, lru, run_cfg, write_obj, scopeVars,
                   resolveVars>>

\* self._write_requirements(requirements=requirements), of the requirement
\* the rules were applied to
WriteRequirements ==
    /\ ret.op = "requirement_rules"
    /\ ret' = [op |-> "write", result |-> ret.result,
               lines |-> ReadAndDumpTomlImports(<<ret.result>>)]
    /\ UNCHANGED <<glob, env_matchers, lru, run_cfg, write_obj, scopeVars,
                   resolveVars>>

NextRules == ApplySourceRules \/ ApplyRequirementRules \/ WriteRequirements

SpecRules == InitRules /\ [][NextRules]_vars

(***************************************************************************)
(* generate_output_requirements.                                           *)
(***************************************************************************)
\* The characters of the model in code point order.
CharOrder ==
    <<"*", "-", ".", "1", "2", "3", "A", "B", "_", "a", "b", "c", "d", "e", "f",
      "g", "i", "l", "o", "p", "r", "s", "t", "x">>

Ord(c) == CHOOSE i \in 1..Len(CharOrder) : CharOrder[i] = c

\* a < b on str
StrLess(a, b) ==
    LET n == IF Len(a) < Len(b) THEN Len(a) ELSE Len(b)
        d == {i \in 1..n : a[i] # b[i]}
    IN  IF d = {} THEN Len(a) < Len(b)
        ELSE Ord(a[CHOOSE i \in d : \A j \in d : i <= j])
                 < Ord(b[CHOOSE i \in d : \A j \in d : i <= j])

\* sorted(S) for a set of str
RECURSIVE Sorted(_)
Sorted(S) ==
    IF S = {} THEN <<>>
    ELSE <<CHOOSE x \in S : \A y \in S \ {x} : StrLess(x, y)>>
             \o Sorted(S \ {CHOOSE x \in S : \A y \in S \ {x} : StrLess(x, y)})

\* ScopeResolvedImports.get_imports_sources: target -> source name -> the
\* occurrences; the order of a list made from a set is not modelled.
GetImportsSources(imports) ==
    [t \in DOMAIN imports |->
        [src \in {SourceName(o) : o \in imports[t]} |->
            {o \in imports[t] : SourceName(o) = src}]]

\* requirements_all[requirement][source].extend(import_infos), per source
ExtendSources(requirements_all, requirement, sources) ==
    LET old == IF requirement \in DOMAIN requirements_all
               THEN requirements_all[requirement] ELSE <<>>
        new == [src \in DOMAIN old \cup DOMAIN sources |->
                   (IF src \in DOMAIN old THEN old[src] ELSE {})
                       \cup (IF src \in DOMAIN sources THEN sources[src] ELSE {})]
    IN  [r \in DOMAIN requirements_all \cup {requirement} |->
            IF r = requirement THEN new ELSE requirements_all[r]]

\* Step 2 of generate_output_requirements over keys[i..]: map_import_to_requirement
\* is called without strict, so with strict=False.
RECURSIVE CollectLoop(_, _, _, _, _, _)
CollectLoop(acc, matchers, imports_all, keys, i, requirements_env) ==
    IF i > Len(keys) \/ acc.err # "ok" THEN acc
    ELSE IF keys[i] \in BUILTIN_MODULE_NAMES
    THEN CollectLoop([acc EXCEPT !.requirements_all =
                          ExtendSources(@, keys[i], imports_all[keys[i]])],
                     matchers, imports_all, keys, i + 1, requirements_env)
    ELSE LET m == MapImportToRequirementInfo(acc.lru, matchers, keys[i],
                                             requirements_env, FALSE)
         IN  IF m.r.err = "NoConfiguredRequirementMappingError"
             THEN CollectLoop([acc EXCEPT !.errors = Append(@, m.r.imports)],
                              matchers, imports_all, keys, i + 1,
                              requirements_env)
             ELSE IF m.r.err # "ok" THEN [acc EXCEPT !.err = m.r.err]
             ELSE CollectLoop([acc EXCEPT
                                  !.lru = m.lru,
                                  !.warnings = @ \o m.r.warnings,
                                  !.requirements_all =
                                      ExtendSources(@, m.r.info.requirement,
                                                    imports_all[keys[i]])],
                              matchers, imports_all, keys, i + 1,
                              requirements_env)

\* The write_src of one source of a requirement, after its apply_write_rules.
WriteSource(scope_g, start_g, source, infos, rules) ==
    SourceApplyWriteRules(
        WriteRequirementSourceModule(
            source, infos, Sorted({t.target : t \in infos}),
            [all_lazy |-> \A v \in infos : v.is_lazy,
             any_target_in_parent_scope |->
                 \E t \in infos : HasModule(scope_g, t.target),
             any_target_in_start_scope |->
                 \E t \in infos : HasModule(start_g, t.target),
             any_source_in_parent_scope |-> HasModule(scope_g, source),
             any_source_in_start_scope |-> HasModule(start_g, source)],
            source \in BUILTIN_MODULE_NAMES, "include"),
        rules)

\* Step 3: the write_req of one requirement, after its apply_write_rules.
WriteReq(scope_g, start_g, requirement, requirement_sources, rules) ==
    RequirementApplyWriteRules(
        WriteRequirement(
            requirement,
            [k \in 1..Len(Sorted(DOMAIN requirement_sources)) |->
                WriteSource(scope_g, start_g,
                            Sorted(DOMAIN requirement_sources)[k],
                            requirement_sources[Sorted(DOMAIN requirement_sources)[k]],
                            rules)],
            requirement \in BUILTIN_MODULE_NAMES, "include"),
        rules)

GenRaises(err, imports, cache, mlru, warnings) ==
    [err |-> err, imports |-> imports, cache |-> cache, lru |-> mlru,
     warnings |-> warnings, write_reqs |-> <<>>]

\* Steps 2 and 3, from the imports resolved with and without lazy imports.
CollectAndWrite(acc, cache, scope_g, start_g, rules) ==
    IF acc.err # "ok" THEN GenRaises(acc.err, {}, cache, acc.lru, acc.warnings)
    ELSE IF Len(acc.errors) > 0
    THEN GenRaises("NoConfiguredRequirementMappingError",
                   UNION Range(acc.errors), cache, acc.lru, acc.warnings)
    ELSE [err |-> "ok", imports |-> {}, cache |-> cache, lru |-> acc.lru,
          warnings |-> acc.warnings,
          write_reqs |->
              [k \in 1..Len(Sorted(DOMAIN acc.requirements_all)) |->
                  WriteReq(scope_g, start_g,
                           Sorted(DOMAIN acc.requirements_all)[k],
                           acc.requirements_all[
                               Sorted(DOMAIN acc.requirements_all)[k]],
                           rules)]]

\* The outcome once both resolutions have been made.
GenerateFromResolved(explicit, all, mlru, matchers, scope_g, start_g, requirements_env, rules) ==
    IF explicit.err # "ok"
    THEN GenRaises(explicit.err, {}, explicit.cache, mlru, <<>>)
    ELSE IF all.err # "ok" THEN GenRaises(all.err, {}, all.cache, mlru, <<>>)
    ELSE IF DOMAIN explicit.imports \ DOMAIN all.imports # {}
    THEN GenRaises("RuntimeError", {}, all.cache, mlru, <<>>)
    ELSE CollectAndWrite(
             CollectLoop([lru |-> mlru, requirements_all |-> <<>>,
                          errors |-> <<>>, warnings |-> <<>>, err |-> "ok"],
                         matchers, GetImportsSources(all.imports),
                         Sorted(DOMAIN all.imports), 1, requirements_env),
             all.cache, scope_g, start_g, rules)

\* generate_output_requirements; start_scope "None" stands for None.
GenerateOutputRequirements(cache, fs, h, sc, mlru, matchers, scope, start_scope, requirements_env, rules) ==
    GenerateFromResolved(
        ResolveScopeImports(cache, fs, h, sc, scope, start_scope, TRUE),
        ResolveScopeImports(
            ResolveScopeImports(cache, fs, h, sc, scope, start_scope, TRUE).cache,
            fs, h, sc, scope, start_scope, FALSE),
        mlru, matchers, h[sc[scope]],
        h[sc[IF start_scope = "None" THEN scope ELSE start_scope]],
        requirements_env, rules)

(***************************************************************************)
(* The generator's state machine: over the scopes of the resolver, one     *)
(* output is generated with the mapper, the environment and the write      *)
(* rules of the run.                                                       *)
(***************************************************************************)
\* The import statements a file may hold, imports of modules outside the
\* scopes among them.
GenStatements ==
    {[src |-> nB,   target |-> nBb1,      is_lazy |-> FALSE, lineno |-> 1],
     [src |-> nB,   target |-> nOs,       is_lazy |-> FALSE, lineno |-> 2],
     [src |-> nB,   target |-> nAsdfFdsa, is_lazy |-> FALSE, lineno |-> 3],
     [src |-> nB,   target |-> nAa2,      is_lazy |-> TRUE,  lineno |-> 4],
     [src |-> nBb1, target |-> nABx,      is_lazy |-> TRUE,  lineno |-> 1],
     [src |-> nBb1, target |-> nAsdfFdsa, is_lazy |-> TRUE,  lineno |-> 2],
     [src |-> nA,   target |-> nAa2,      is_lazy |-> FALSE, lineno |-> 1]}

GenEnvs == {"default", "extra", "other"}

InitGen ==
    /\ graphs = ResolveScopes.graphs
    /\ scopes = ResolveScopes.scopes
    /\ origin = "none"
    /\ last = NoCall
    /\ nops = 0
    /\ files \in {fs \in SUBSET GenStatements : Cardinality(fs) <= MaxImports}
    /\ modules_imports = <<>>
    /\ req = NoReq
    /\ out = <<>>
    /\ glob = NoGlob
    /\ env_matchers \in
           {[default |-> DefaultMatchers, extra |-> ExtraMatchers], <<>>}
    /\ lru = <<>>
    /\ run_cfg \in {[strict_requirements_map |-> b, write_rules |-> r] :
                       b \in BOOLEAN,
                       r \in {WriteRules("exclude", "exclude", "comment")}}
    /\ write_obj = NoObj
    /\ ret = NoRet

\* _Output.generate_and_write_requirements: the requirements are generated
\* and, unless that raised, written to the output file.
Generate(scope, start_scope, requirements_env) ==
    /\ ret = NoRet
    /\ \E g \in {GenerateOutputRequirements(modules_imports, files, graphs, scopes,
                                             lru, env_matchers, scope, start_scope,
                                             requirements_env, run_cfg.write_rules)},
          resolved_explicit \in {ResolveScopeImports(modules_imports, files, graphs,
                                                    scopes, scope, start_scope, TRUE)} :
        /\ modules_imports' = g.cache
        /\ lru' = g.lru
        /\ req' = [active |-> TRUE, scope |-> scope, start_scope |-> start_scope,
                   skip_lazy |-> FALSE]
        /\ ret' = [op |-> "generate", requirements_env |-> requirements_env,
                   err |-> g.err, imports |-> g.imports,
                   warnings |-> g.warnings, write_reqs |-> g.write_reqs,
                   resolved_explicit |-> resolved_explicit.imports,
                   resolved_all |->
                       ResolveScopeImports(resolved_explicit.cache, files, graphs,
                                           scopes, scope, start_scope, FALSE).imports,
                   written |-> g.err = "ok",
                   lines |-> IF g.err = "ok"
                             THEN ReadAndDumpTomlImports(g.write_reqs)
                             ELSE <<>>]
        /\ UNCHANGED <<files, out, scopeVars, glob, env_matchers, run_cfg,
                       write_obj>>

NextGen ==
    \E scope \in Slots, start_scope \in Slots \cup {"None"},
       requirements_env \in GenEnvs :
        Generate(scope, start_scope, requirements_env)

SpecGen == InitGen /\ [][NextGen]_vars

(***************************************************************************)
(* pydeps: the configuration of the pyproject file is validated, its       *)
(* scopes are loaded, and its outputs are generated and written.           *)
(***************************************************************************)
\* Path(default_root).is_absolute()
IsAbsolute(path) == Len(path) > 0 /\ path[1] = "/"

\* The scope names, then the sub-scope names, in the order _validate_model
\* adds them to scope_names.
RECURSIVE SubscopeNames(_, _)
SubscopeNames(cfgs, i) ==
    IF i > Len(cfgs) THEN <<>>
    ELSE [k \in 1..Len(cfgs[i].subscopes) |-> cfgs[i].subscopes[k][1]]
             \o SubscopeNames(cfgs, i + 1)

\* PydependenceCfg._validate_model
ValidateModel(cfg) ==
    LET names == [i \in 1..Len(cfg.scopes) |-> cfg.scopes[i].name]
                     \o SubscopeNames(cfg.scopes, 1)
    IN  IF \E i, j \in 1..Len(names) : i < j /\ names[i] = names[j]
        THEN "ValueError"
        ELSE IF IsAbsolute(cfg.default_root) THEN "ValueError"
        ELSE "ok"

\* The scope definition with its first k paths only, search paths first.
FirstPaths(cfg, k) ==
    [cfg EXCEPT
        !.search_paths = Take(@, IF k < Len(@) THEN k ELSE Len(@)),
        !.pkg_paths = Take(@, IF k > Len(cfg.search_paths)
                              THEN k - Len(cfg.search_paths) ELSE 0),
        !.packages = <<>>]

\* The paths make_module_scope passes to the scanner: none when a parent is
\* missing, and otherwise those up to the first that raises.
PathsTried(h, cfg, loaded, live) ==
    IF LoadParents(NewScope(h), cfg.parents, 1, loaded, live).err # "ok"
    THEN <<>>
    ELSE CHOOSE t \in
             {Take(cfg.search_paths \o cfg.pkg_paths,
                   IF Cardinality(good) < Len(cfg.search_paths \o cfg.pkg_paths)
                   THEN Cardinality(good) + 1 ELSE Cardinality(good)) :
                 good \in
                     {{k \in 1..Len(cfg.search_paths \o cfg.pkg_paths) :
                          LoadSources(h, FirstPaths(cfg, k), loaded, live).err
                              = "ok"}}} : TRUE

\* The sub-scopes of a scope that was loaded: each is the scope restricted to
\* the children of an import root, registered under its name.
RECURSIVE LoadSubscopes(_, _, _, _)
LoadSubscopes(st, gid, subscopes, k) ==
    IF st.err # "ok" \/ k > Len(subscopes) THEN st
    ELSE LET r == GetRestrictedScope(st.graphs, gid, <<subscopes[k][2]>>,
                                     "CHILDREN", "LIMIT")
         IN  LoadSubscopes(
                 IF r.err # "ok" THEN [st EXCEPT !.err = r.err]
                 ELSE [st EXCEPT
                          !.graphs = r.graphs,
                          !.loaded = [n \in DOMAIN @ \cup {subscopes[k][1]} |->
                                         IF n = subscopes[k][1] THEN r.gid
                                         ELSE @[n]]],
                 gid, subscopes, k + 1)

\* The sub-scope loop's outcome: when it raised, at the definition i.
FailedAt(st, i) ==
    IF st.err # "ok"
    THEN [st EXCEPT !.failed = i, !.raised_in = "get_restricted_scope"]
    ELSE st

\* As RegisterScope, but the scope is registered under its name whether or
\* not making it raised.
RegisterScopeAlways(st, cfg, i, m, tried) ==
    IF m.err # "ok"
    THEN [st EXCEPT !.err = m.err, !.failed = i, !.scanned = tried,
                    !.raised_in = "make_module_scope",
                    !.graphs = m.graphs,
                    !.loaded = [n \in DOMAIN @ \cup {cfg.name} |->
                                   IF n = cfg.name THEN m.gid ELSE @[n]],
                    !.partial = m.graphs[m.gid].nodes]
    ELSE FailedAt(LoadSubscopes(
                      [st EXCEPT !.graphs = m.graphs, !.scanned = tried,
                                 !.loaded = [n \in DOMAIN @ \cup {cfg.name} |->
                                                IF n = cfg.name THEN m.gid
                                                ELSE @[n]]],
                      m.gid, cfg.subscopes, 1), i)

\* One turn of the loop of load_scopes, m being what make_module_scope gave:
\* the scope is registered under its name, then its sub-scopes are.  When
\* a turn raised, `failed` is the index of the definition, `raised_in` the call
\* that raised, and `partial` the modules the scope under construction held
\* when make_module_scope gave it up.
RegisterScope(st, cfg, i, m, tried) ==
    IF m.err # "ok"
    THEN [st EXCEPT !.err = m.err, !.failed = i, !.scanned = tried,
                    !.raised_in = "make_module_scope",
                    !.partial = m.graphs[m.gid].nodes]
    ELSE FailedAt(LoadSubscopes(
                      [st EXCEPT !.graphs = m.graphs, !.scanned = tried,
                                 !.loaded = [n \in DOMAIN @ \cup {cfg.name} |->
                                                IF n = cfg.name THEN m.gid
                                                ELSE @[n]]],
                      m.gid, cfg.subscopes, 1), i)

\* The loop of load_scopes.  The scope made and the state after a turn are
\* bound as the one element of a set, which evaluates them once.
RECURSIVE LoadScopesLoop(_, _, _)
LoadScopesLoop(st, cfgs, i) ==
    IF st.err # "ok" \/ i > Len(cfgs) THEN st
    ELSE CHOOSE r \in
             {LoadScopesLoop(next, cfgs, i + 1) :
                 next \in
                     {RegisterScope(st, cfgs[i], i, m,
                                    st.scanned \o PathsTried(st.graphs, cfgs[i],
                                                             st.loaded,
                                                             Range(st.loaded))) :
                         m \in {MakeModuleScope(st.graphs, cfgs[i], st.loaded,
                                                Range(st.loaded))}}} : TRUE

\* PydependenceCfg.load_scopes
LoadScopesOf(cfg) ==
    LoadScopesLoop([err |-> "ok", graphs |-> <<>>, loaded |-> <<>>,
                    scanned |-> <<>>, failed |-> 0, raised_in |-> "none",
                    partial |-> {}],
                   cfg.scopes, 1)

\* _Output.get_output_name
GetOutputName(output) ==
    IF output.output_name # "None" THEN output.output_name
    ELSE IF output.start_scope # "None" THEN output.start_scope
    ELSE output.scope

\* make_requirements_mapper passes strict= to RequirementsMapper, whose
\* __init__ takes env_matchers only.
MakeRequirementsMapper(versions, strict) ==
    [err |-> "TypeError", env_matchers |-> <<>>]

\* The loop over the outputs: each is generated and written to its file, and
\* the first that raises ends the loop.
RECURSIVE WriteOutputsLoop(_, _, _, _, _, _, _)
WriteOutputsLoop(st, resolvers, i, fs, h, loaded, matchers) ==
    IF st.err # "ok" \/ i > Len(resolvers) THEN st
    ELSE LET g == GenerateOutputRequirements(
                      st.cache, fs, h, loaded, st.lru, matchers,
                      resolvers[i].scope, resolvers[i].start_scope,
                      resolvers[i].env, resolvers[i].write_rules)
         IN  WriteOutputsLoop(
                 IF g.err # "ok"
                 THEN [st EXCEPT !.err = g.err, !.cache = g.cache, !.lru = g.lru]
                 ELSE [st EXCEPT
                          !.cache = g.cache, !.lru = g.lru,
                          !.written = Append(@,
                              [file |-> resolvers[i].output_file,
                               lines |-> ReadAndDumpTomlImports(g.write_reqs)])],
                 resolvers, i + 1, fs, h, loaded, matchers)

\* PydependenceCfg.write_all_outputs
WriteAllOutputsOf(cfg, cache, fs, h, loaded) ==
    LET names == [i \in 1..Len(cfg.resolvers) |-> GetOutputName(cfg.resolvers[i])]
        st == [err |-> "ok", cache |-> cache, lru |-> <<>>, written |-> <<>>]
        mapper == MakeRequirementsMapper(cfg.versions, cfg.strict_requirements_map)
    IN  IF \E i, j \in 1..Len(names) : i < j /\ names[i] = names[j]
        THEN [st EXCEPT !.err = "ValueError"]
        ELSE IF \E i \in 1..Len(cfg.resolvers) :
                    \/ cfg.resolvers[i].scope \notin DOMAIN loaded
                    \/ /\ cfg.resolvers[i].start_scope # "None"
                       /\ cfg.resolvers[i].start_scope \notin DOMAIN loaded
        THEN [st EXCEPT !.err = "ValueError"]
        ELSE IF mapper.err # "ok" THEN [st EXCEPT !.err = mapper.err]
        ELSE WriteOutputsLoop(st, cfg.resolvers, 1, fs, h, loaded,
                              mapper.env_matchers)

\* The scope definitions of the runs: a is scanned from pkgs_b and has the
\* sub-scope b1; each other definition follows a in its list.
RunScope(name, parents, search_paths, pkg_paths, subscopes) ==
    [name |-> name, parents |-> parents, search_paths |-> search_paths,
     pkg_paths |-> pkg_paths, packages |-> <<>>, limit |-> <<>>,
     exclude |-> <<>>, subscopes |-> subscopes]

RunScopeA == RunScope("a", <<>>, <<"pkgs_b">>, <<>>, << <<"b1", nBb1>> >>)

RunScopeLists ==
    {<<RunScopeA>>,
     <<RunScopeA, RunScopeA>>,
     <<RunScopeA, RunScope("b1", <<>>, <<>>, <<>>, <<>>)>>,
     <<RunScopeA, RunScope("c", <<"a">>, <<"pkgs_gap">>, <<>>, <<>>)>>,
     <<RunScopeA, RunScope("d", <<"b1">>, <<"pkgs_gap", "pkgs_b">>, <<>>,
                           << <<"d1", nA>> >>)>>,
     <<RunScopeA, RunScope("e", <<>>, <<"pkgs_gap">>, <<"nowhere">>,
                           << <<"e1", nA>> >>)>>,
     <<RunScopeA, RunScope("f", <<"zz">>, <<"pkgs_gap">>, <<>>, <<>>)>>,
     <<RunScopeA, RunScope("g", <<>>, <<"pkgs_gap">>, <<>>,
                           << <<"g1", nADot>> >>)>>}

\* An output of the runs; "None" stands for a field left out.
RunOutput(scope, start_scope, output_name) ==
    [scope |-> scope, start_scope |-> start_scope, output_name |-> output_name,
     output_file |-> GetOutputName([scope |-> scope, start_scope |-> start_scope,
                                    output_name |-> output_name]),
     env |-> "default",
     write_rules |-> WriteRules("exclude", "exclude", "comment")]

RunOutputLists ==
    {<<>>,
     <<RunOutput("a", "None", "None")>>,
     <<RunOutput("a", "b1", "None")>>,
     <<RunOutput("a", "None", "None"), RunOutput("a", "None", "None")>>,
     <<RunOutput("a", "None", "None"), RunOutput("zz", "None", "None")>>,
     <<RunOutput("a", "None", "None"), RunOutput("a", "zz", "x")>>,
     <<RunOutput("a", "None", "None"), RunOutput("b1", "a", "x")>>}

RunRoots == {<<".", ".">>, <<"/", "r">>}

RunConfigs ==
    {[default_root |-> d, strict_requirements_map |-> TRUE, versions |-> <<>>,
      scopes |-> s, resolvers |-> o] :
         d \in RunRoots, s \in RunScopeLists, o \in RunOutputLists}

\* The run has not started: `at` is the step of pydeps that comes next.
InitRun ==
    /\ graphs = <<>>
    /\ scopes = <<>>
    /\ origin = "none"
    /\ last = NoCall
    /\ nops = 0
    /\ files = {x \in Statements : x.src \in {nB, nBb1}}
    /\ modules_imports = <<>>
    /\ req = NoReq
    /\ out = <<>>
    /\ glob = NoGlob
    /\ env_matchers = <<>>
    /\ lru = <<>>
    /\ run_cfg \in RunConfigs
    /\ write_obj = NoObj
    /\ ret = [op |-> "run", at |-> "from_pyproject", err |-> "ok",
              scanned |-> <<>>, written |-> <<>>, failed |-> 0,
              raised_in |-> "none", partial |-> {}]

\* 2. PyprojectToml.from_pyproject(file): the model is validated
FromPyproject ==
    /\ ret.op = "run"
    /\ ret.at = "from_pyproject"
    /\ ret' = IF ValidateModel(run_cfg) = "ok"
              THEN [ret EXCEPT !.at = "load_scopes"]
              ELSE [ret EXCEPT !.at = "raised", !.err = ValidateModel(run_cfg)]
    /\ UNCHANGED <<glob, env_matchers, lru, run_cfg, write_obj, scopeVars,
                   resolveVars>>

\* 3. loaded_scopes = pyproject.tool.pydependence.load_scopes()
LoadScopes ==
    \E l \in {LoadScopesOf(run_cfg)} :
        /\ ret.op = "run"
        /\ ret.at = "load_scopes"
        /\ graphs' = l.graphs
        /\ scopes' = l.loaded
        /\ ret' = [ret EXCEPT
                      !.at = IF l.err = "ok" THEN "write_all_outputs" ELSE "raised",
                      !.err = l.err, !.scanned = l.scanned,
                      !.failed = l.failed, !.raised_in = l.raised_in,
                      !.partial = l.partial]
        /\ UNCHANGED <<origin, last, nops, glob, env_matchers, lru, run_cfg,
                       write_obj, resolveVars>>

\* 4. pyproject.tool.pydependence.write_all_outputs(loaded_scopes)
WriteAllOutputs ==
    \E w \in {WriteAllOutputsOf(run_cfg, modules_imports, files, graphs, scopes)} :
        /\ ret.op = "run"
        /\ ret.at = "write_all_outputs"
        /\ modules_imports' = w.cache
        /\ lru' = w.lru
        /\ ret' = [ret EXCEPT
                      !.at = IF w.err = "ok" THEN "done" ELSE "raised",
                      !.err = w.err, !.written = w.written]
        /\ UNCHANGED <<files, req, out, scopeVars, glob, env_matchers, run_cfg,
                       write_obj>>

NextRun == FromPyproject \/ LoadScopes \/ WriteAllOutputs

SpecRun == InitRun /\ [][NextRun]_vars

(***************************************************************************)
(* Properties of the scopes.                                               *)
(***************************************************************************)
MergeCalls ==
    {"add_modules_from_scope", "add_modules_from_raw_imports",
     "add_modules_from_search_path", "add_modules_from_package_path"}

\* `name` is the dotted name `anchor` or a dotted name below it.
IsUnder(anchor, name) ==
    /\ Len(anchor) <= Len(name)
    /\ SubSeq(name, 1, Len(anchor)) = anchor
    /\ Len(name) = Len(anchor) \/ name[Len(anchor) + 1] = "."

UnderAny(anchors, name) == \E i \in 1..Len(anchors) : IsUnder(anchors[i], name)

\* The top-level root of a dotted name: its characters before the first dot.
RootOf(name) ==
    IF \E i \in 1..Len(name) : name[i] = "."
    THEN SubSeq(name, 1, (CHOOSE i \in 1..Len(name) :
                            /\ name[i] = "."
                            /\ \A j \in 1..(i - 1) : name[j] # ".") - 1)
    ELSE name

\* A dotted name without an empty component.
WellFormed(name) ==
    /\ Len(name) > 0
    /\ name[1] # "." /\ name[Len(name)] # "."
    /\ \A i \in 1..(Len(name) - 1) : ~(name[i] = "." /\ name[i + 1] = ".")

AllWellFormed(anchors) == \A i \in 1..Len(anchors) : WellFormed(anchors[i])

SevenModules == {nA, nAa1, nAa2, nAa3, nAa3a3i, nB, nBb1}

\* C4: merging a scope or raw imports into a scope succeeds iff the module
\* names are disjoint; then the receiver's modules are the union and every
\* other scope is unchanged; otherwise a duplicate-module error is raised and
\* every scope's modules are what they were before the call.
C4_MergeDisjointOrUnchanged ==
    last.op \in {"add_modules_from_scope", "add_modules_from_raw_imports"} =>
        IF last.pre[last.self] \cap last.merged = {}
        THEN /\ last.err = "ok"
             /\ Modules(last.self) = last.pre[last.self] \cup last.merged
             /\ \A s \in Slots \ {last.self} : Modules(s) = last.pre[s]
        ELSE /\ last.err = "DuplicateModuleError"
             /\ \A s \in Slots : Modules(s) = last.pre[s]

\* C4 witness: a merge of one scope into another, both with modules, that
\* failed on a shared name.
C4_Witness ==
    /\ last.op = "add_modules_from_scope"
    /\ last.err = "DuplicateModuleError"
    /\ last.other # last.self
    /\ last.pre[last.self] # last.pre[last.other]
    /\ Modules(last.self) # {}

\* C5: a restriction changes no scope but the one returned, and a merge
\* changes no scope but its receiver: the restricted scope and the scope it
\* was made from never change together.
C5_RestrictIndependent ==
    [][/\ last'.op = "get_restricted_scope" =>
            \A s \in Slots \ {"r"} : Modules(s)' = Modules(s)
       /\ last'.op \in MergeCalls =>
            \A s \in Slots \ {last'.self} : Modules(s)' = Modules(s)]_vars

\* C5 witness: "r" was restricted from "a", dropping modules, and a later
\* merge into "r" succeeded.
C5_Witness ==
    /\ origin = "a"
    /\ last.op \in MergeCalls
    /\ last.self = "r"
    /\ last.err = "ok"
    /\ Modules("r") # last.pre["r"]
    /\ Modules("a") # {}
    /\ ~(Modules("a") \subseteq Modules("r"))

\* C6: CHILDREN with LIMIT keeps exactly the modules that are an anchor or
\* below one, component-wise; on the seven modules, [A] keeps A and its four
\* descendants and [A.a3] keeps A.a3 and A.a3.a3i.
C6_ChildrenLimit ==
    (/\ last.op = "get_restricted_scope"
     /\ last.mode = "CHILDREN"
     /\ last.rop = "LIMIT"
     /\ AllWellFormed(last.imports)) =>
        /\ last.err = "ok"
        /\ Modules("r") = {n \in last.pre[last.self] : UnderAny(last.imports, n)}
        /\ (last.pre[last.self] = SevenModules /\ last.imports = <<nA>>) =>
               Modules("r") = {nA, nAa1, nAa2, nAa3, nAa3a3i}
        /\ (last.pre[last.self] = SevenModules /\ last.imports = <<nAa3>>) =>
               Modules("r") = {nAa3, nAa3a3i}

C6_Witness ==
    /\ last.op = "get_restricted_scope"
    /\ last.mode = "CHILDREN"
    /\ last.rop = "LIMIT"
    /\ last.imports = <<nAa3>>
    /\ last.pre[last.self] = SevenModules
    /\ Modules("r") = {nAa3, nAa3a3i}

\* C7: ROOT_CHILDREN with LIMIT keeps exactly the modules whose top-level root
\* is an anchor's root, EXACT keeps exactly the modules that are an anchor, and
\* both complete without error for every non-empty anchor list.
C7_RootChildrenAndExact ==
    (/\ last.op = "get_restricted_scope"
     /\ last.mode \in {"ROOT_CHILDREN", "EXACT"}
     /\ last.rop = "LIMIT"
     /\ last.pre[last.self] # {}
     /\ Len(last.imports) > 0
     /\ AllWellFormed(last.imports)) =>
        /\ last.err = "ok"
        /\ Modules("r") =
             IF last.mode = "EXACT"
             THEN {n \in last.pre[last.self] : n \in Range(last.imports)}
             ELSE {n \in last.pre[last.self] :
                     RootOf(n) \in {RootOf(x) : x \in Range(last.imports)}}

\* C8: for the same receiver, anchors and mode, the EXCLUDE result and the
\* LIMIT result are disjoint and their union is the receiver's module set.
C8_ExcludeComplementsLimit ==
    (/\ last.op = "get_restricted_scope"
     /\ last.pre[last.self] # {}
     /\ AllWellFormed(last.imports)) =>
        LET other == GetRestrictedScope(graphs, scopes[last.self], last.imports,
                         last.mode, IF last.rop = "LIMIT" THEN "EXCLUDE" ELSE "LIMIT")
        IN  /\ last.err = "ok"
            /\ other.err = "ok"
            /\ Modules("r") \cap other.graphs[other.gid].nodes = {}
            /\ Modules("r") \cup other.graphs[other.gid].nodes = Modules(last.self)

\* C9: a scope built with both a limit and an exclude filter holds exactly the
\* loaded modules that are under a limit anchor and under no exclude anchor.
LoadedNames(cfg) ==
    UNION ({last.pre[cfg.parents[i]] : i \in 1..Len(cfg.parents)}
           \cup {Range(Disk[cfg.search_paths[i]].found) :
                    i \in 1..Len(cfg.search_paths)}
           \cup {Range(Disk[cfg.pkg_paths[i]].found) : i \in 1..Len(cfg.pkg_paths)})

C9_LimitThenExclude ==
    (/\ last.op = "make_module_scope"
     /\ last.err = "ok"
     /\ Len(last.cfg.limit) > 0
     /\ Len(last.cfg.exclude) > 0) =>
        Modules("r") = {n \in LoadedNames(last.cfg) : UnderAny(last.cfg.limit, n)}
                       \ {n \in LoadedNames(last.cfg) : UnderAny(last.cfg.exclude, n)}

C9_Witness ==
    /\ last.op = "make_module_scope"
    /\ last.err = "ok"
    /\ last.cfg.limit = <<nA>>
    /\ last.cfg.exclude = <<nAa3>>
    /\ SevenModules \subseteq LoadedNames(last.cfg)
    /\ Modules("r") = {nA, nAa1, nAa2}

\* C10: restricting the result of a restriction again, with the same anchors,
\* mode and operator, gives a scope with the same modules.
C10_RestrictIdempotent ==
    (/\ last.op = "get_restricted_scope"
     /\ last.pre[last.self] # {}
     /\ AllWellFormed(last.imports)) =>
        /\ last.err = "ok"
        /\ LET again == GetRestrictedScope(graphs, scopes["r"], last.imports,
                                           last.mode, last.rop)
           IN  /\ again.err = "ok"
               /\ again.graphs[again.gid].nodes = Modules("r")

\* C8 and C10 outside ROOT_CHILDREN with anchors, where get_restricted_scope
\* raises: the complement and the idempotence hold for every other call.
RestrictLawsWhereDefined ==
    (/\ last.op = "get_restricted_scope"
     /\ AllWellFormed(last.imports)
     /\ (last.mode # "ROOT_CHILDREN" \/ Len(last.imports) = 0)) =>
        /\ C8_ExcludeComplementsLimit
        /\ C10_RestrictIdempotent

Returns == req.active /\ out.err = "ok"

ScopeGraph == graphs[scopes[req.scope]]

StartModules ==
    graphs[scopes[IF req.start_scope = "None" THEN req.scope ELSE req.start_scope]].nodes

\* The statements in the file of s that import t; none if the scope has no file for s.
Occurrences(s, t) ==
    IF s \in DOMAIN ScopeGraph.info
    THEN {x \in files : x.src = s /\ x.target = t}
    ELSE {}

\* The module names that the files on disk mention.
Names == {x.src : x \in files} \cup {x.target : x \in files}

\* The edges of the import graph when all-lazy edges are kept (skip = FALSE)
\* or left out (skip = TRUE).
ImportEdges(skip) ==
    {e \in Names \X Names :
        /\ Occurrences(e[1], e[2]) # {}
        /\ ~(skip /\ \A x \in Occurrences(e[1], e[2]) : x.is_lazy)}

RECURSIVE ReachableFrom(_, _)
ReachableFrom(seen, edges) ==
    IF {e[2] : e \in {f \in edges : f[1] \in seen}} \subseteq seen THEN seen
    ELSE ReachableFrom(seen \cup {e[2] : e \in {f \in edges : f[1] \in seen}}, edges)

\* The edges whose source is a start module or reachable from one.
WalkedEdges(skip) ==
    {e \in ImportEdges(skip) : e[1] \in ReachableFrom(StartModules, ImportEdges(skip))}

AsReported(x) ==
    [source_module_info |-> ScopeGraph.info[x.src], target |-> x.target,
     is_lazy |-> x.is_lazy, lineno |-> x.lineno]

\* C1: a resolve that returns gives, for each target t, exactly the union of the
\* occurrences of every edge (s, t) of the import graph whose source s is a start
\* module or reachable from one; targets outside the scope are reported and their
\* own imports are not followed.
C1_ResolveIsUnionOverWalkedEdges ==
    Returns =>
        /\ DOMAIN out.imports = {e[2] : e \in WalkedEdges(req.skip_lazy)}
        /\ \A t \in DOMAIN out.imports :
               out.imports[t] =
                   {AsReported(x) : x \in UNION {Occurrences(e[1], t) :
                        e \in {f \in WalkedEdges(req.skip_lazy) : f[2] = t}}}

\* Two walked edges into one target, and a reported target that is not a module
\* of the scope and whose own file holds imports.
C1_Witness ==
    /\ Returns
    /\ \E t \in DOMAIN out.imports :
           Cardinality({e \in WalkedEdges(req.skip_lazy) : e[2] = t /\ e[1] # t}) >= 2
    /\ \E t \in DOMAIN out.imports :
           /\ t \notin ScopeGraph.nodes
           /\ \E x \in files : x.src = t

\* The targets whose every path from the start modules passes an all-lazy edge.
LazyOnlyTargets ==
    {e[2] : e \in WalkedEdges(FALSE)} \ {e[2] : e \in WalkedEdges(TRUE)}

\* C2: with skip_lazy the all-lazy edges are left out before the traversal, so a
\* target whose every path from the start modules passes an all-lazy edge is
\* absent from the result; without skip_lazy the same target is present.
C2_LazyOnlyTargetsSkipped ==
    Returns =>
        /\ req.skip_lazy => LazyOnlyTargets \cap DOMAIN out.imports = {}
        /\ ~req.skip_lazy => LazyOnlyTargets \subseteq DOMAIN out.imports

\* A resolve with skip_lazy where a target behind an all-lazy edge has an eager
\* import of its own, which is not reached either.
C2_Witness ==
    /\ Returns
    /\ req.skip_lazy
    /\ \E e \in WalkedEdges(FALSE) \ ImportEdges(TRUE) :
           /\ e[2] \in LazyOnlyTargets
           /\ \E f \in ImportEdges(TRUE) : f[1] = e[2] /\ f[2] \in LazyOnlyTargets

\* The pairs with both an eager and a lazy occurrence whose source is walked.
MixedPairs ==
    {e \in WalkedEdges(req.skip_lazy) :
        /\ \E x \in Occurrences(e[1], e[2]) : x.is_lazy
        /\ \E x \in Occurrences(e[1], e[2]) : ~x.is_lazy}

ReportedFrom(s, t) ==
    IF t \in DOMAIN out.imports
    THEN {o \in out.imports[t] : o.source_module_info.name = s}
    ELSE {}

\* C3: for a pair with both eager and lazy occurrences, a resolve without
\* skip_lazy reports all the occurrences and a resolve with skip_lazy reports
\* exactly the eager ones.
C3_MixedPairReportsEagerOnly ==
    Returns =>
        \A e \in MixedPairs :
            ReportedFrom(e[1], e[2]) =
                {AsReported(x) : x \in {y \in Occurrences(e[1], e[2]) :
                                          ~(req.skip_lazy /\ y.is_lazy)}}

\* What holds of a mixed pair: all its occurrences are reported, lazy or not,
\* whether skip_lazy is set or not.
MixedPairReportsAll ==
    Returns =>
        \A e \in MixedPairs :
            ReportedFrom(e[1], e[2]) = {AsReported(x) : x \in Occurrences(e[1], e[2])}

\* The start scope of the request holds a module that its scope does not hold.
StartOutsideScope == req.active /\ ~(StartModules \subseteq ScopeGraph.nodes)

\* C12: a resolve whose start scope holds a module outside the scope fails with
\* the fatal error before any module source is scanned: the cache of scanned
\* modules is left as it was and no imports are reported.
C12_StartOutsideScopeFailsFirst ==
    [][StartOutsideScope' =>
          /\ out'.err = "ValueError"
          /\ out'.imports = <<>>
          /\ modules_imports' = modules_imports]_vars

\* A failed resolve of a scope whose modules have import statements on disk,
\* with nothing scanned so far.
C12_Witness ==
    /\ StartOutsideScope
    /\ out.err = "ValueError"
    /\ modules_imports = <<>>
    /\ \E x \in files : x.src \in DOMAIN ScopeGraph.info

(***************************************************************************)
(* Properties of the import matchers.                                      *)
(***************************************************************************)
\* The identifiers that the patterns and the imports are made of.
PartNames ==
    {<<"A">>, <<"B">>, <<"A", "B">>, <<"a", "1">>, <<"a", "2">>, <<"a", "3">>,
     <<"a", "3", "i">>, <<"b", "1">>, <<"o", "s">>, <<"x">>,
     <<"a", "s", "d", "f">>, <<"f", "d", "s", "a">>}

MaxParts == 3

\* One to MaxParts identifiers joined by dots.
DottedNames ==
    {Join(ids) : ids \in UNION {[1..n -> PartNames] : n \in 1..MaxParts}}

EndsInWildcard(pattern) ==
    /\ Len(pattern) >= 2
    /\ SubSeq(pattern, Len(pattern) - 1, Len(pattern)) = <<".", "*">>

\* P of a pattern P.*
BeforeWildcard(pattern) == SubSeq(pattern, 1, Len(pattern) - 2)

Matched == ret.op = "match" /\ ret.matched

\* C18: a pattern without a wildcard matches the import identical to it and no
\* other; a pattern P.* matches P and every import that continues P with a dot,
\* and nothing else.
C18_GlobMatchesByComponents ==
    ret.op = "match" =>
        IF EndsInWildcard(glob.orig)
        THEN Matched <=>
                \/ ret.import_ = BeforeWildcard(glob.orig)
                \/ /\ Len(ret.import_) > Len(glob.orig) - 2
                   /\ SubSeq(ret.import_, 1, Len(glob.orig) - 1)
                          = BeforeWildcard(glob.orig) \o <<".">>
        ELSE Matched <=> ret.import_ = glob.orig

\* A.* was matched against AB.x, which shares its leading characters only.
C18_Witness ==
    /\ glob.err = "ok"
    /\ glob.orig = <<"A", ".", "*">>
    /\ ret.op = "match"
    /\ ret.import_ = nABx
    /\ ~ret.matched

\* C19: constructing a glob succeeds for one or more identifiers joined by
\* dots, optionally followed by one final ".*", and fails with a ValueError
\* for every other pattern.
C19_GlobShape ==
    glob.err # "none" =>
        /\ glob.err \in {"ok", "ValueError"}
        /\ glob.err = "ok" <=>
               \/ glob.orig \in DottedNames
               \/ /\ EndsInWildcard(glob.orig)
                  /\ BeforeWildcard(glob.orig) \in DottedNames

\* The wildcard alone was refused.
C19_Witness == glob.err = "ValueError" /\ glob.orig = <<"*">>

(***************************************************************************)
(* Properties of the requirements mapper.                                  *)
(***************************************************************************)
\* The environment the last call asked for; no environment means the default.
RequestedEnv ==
    IF ret.requirements_env = "None" THEN "default" ELSE ret.requirements_env

\* The positions in the environment's ordered list whose matcher accepts the
\* import of the last call; none for an environment that was not declared.
Hits(env) ==
    {i \in 1..Len(GetMatchers(env_matchers, env)) :
        MatcherMatch(GetMatchers(env_matchers, env)[i].matcher, ret.import_)}

Earliest(S) == CHOOSE i \in S : \A j \in S : i <= j

\* The call returned the requirement of the earliest accepting pair of env.
ReturnedEarliestOf(env) ==
    /\ ret.err = "ok"
    /\ ret.info.has_mapping
    /\ ret.info.requirement = env_matchers[env][Earliest(Hits(env))].requirement

\* The outcome of a call that found no matcher: an error naming the import
\* in strict mode, the first dotted component in lenient mode.
NoMatchOutcome ==
    IF ret.strict
    THEN /\ ret.err = "NoConfiguredRequirementMappingError"
         /\ ret.imports = {ret.import_}
    ELSE /\ ret.err = "ok"
         /\ ~ret.info.has_mapping
         /\ \/ ret.info.requirement = ret.import_
            \/ /\ Len(ret.import_) > Len(ret.info.requirement)
               /\ SubSeq(ret.import_, 1, Len(ret.info.requirement) + 1)
                      = ret.info.requirement \o <<".">>
         /\ \A i \in 1..Len(ret.info.requirement) :
                ret.info.requirement[i] # "."

\* C13: mapping is first-match-wins over the ordered matcher list: an import
\* mapped in the default environment gets the requirement of the earliest pair
\* whose matcher accepts it, even when a later pair accepts it too.
C13_FirstMatchWins ==
    (ret.op = "map" /\ RequestedEnv = "default" /\ Hits("default") # {})
        => ReturnedEarliestOf("default")

\* A.a2 mapped to the requirement of A.*, with A.a2.* later in the list.
C13_Witness ==
    /\ ret.op = "map"
    /\ RequestedEnv = "default"
    /\ ret.import_ = nAa2
    /\ Cardinality(Hits("default")) >= 2
    /\ ret.err = "ok"
    /\ ret.info.requirement = rGlobA

\* C14: for a declared environment other than the default, a match in that
\* environment wins over any match in the default environment, and an import
\* matched by the default environment only gets the default's first match.
C14_RequestedEnvBeforeDefault ==
    (/\ ret.op = "map"
     /\ RequestedEnv # "default"
     /\ RequestedEnv \in DOMAIN env_matchers)
        => /\ Hits(RequestedEnv) # {} => ReturnedEarliestOf(RequestedEnv)
           /\ (Hits(RequestedEnv) = {} /\ Hits("default") # {})
                  => ReturnedEarliestOf("default")

\* An import accepted in both environments got the requested environment's
\* requirement, which is not the one the default environment gives it.
C14_Witness ==
    /\ ret.op = "map"
    /\ ret.requirements_env = "extra"
    /\ Hits("extra") # {}
    /\ Hits("default") # {}
    /\ ret.err = "ok"
    /\ ret.info.requirement = rExtraAa2
    /\ env_matchers["default"][Earliest(Hits("default"))].requirement = rGlobA

\* The last call asked for an environment, not the default, that the mapper
\* has no matcher list for.
UndeclaredEnv ==
    /\ ret.op = "map"
    /\ RequestedEnv # "default"
    /\ RequestedEnv \notin DOMAIN env_matchers

\* C15: for an undeclared environment the default environment's list is still
\* scanned: the call returns its first match, or the no-match outcome of the
\* mode, and does not fail because of the environment.
C15_UndeclaredEnvFallsBackToDefault ==
    UndeclaredEnv =>
        IF Hits("default") # {} THEN ReturnedEarliestOf("default")
        ELSE NoMatchOutcome

\* What holds for an undeclared environment: the call raises ValueError in
\* both modes, whatever the default environment would have matched.
UndeclaredEnvRaises ==
    UndeclaredEnv => ret.err = "ValueError"

\* C17: in lenient mode, mapping an import that no matcher of the requested or
\* the default environment accepts does not raise: it returns the import's
\* first dotted component, marked as unmapped, and a warning is emitted.
C17_LenientNoMatchReturnsRoot ==
    (/\ ret.op = "map"
     /\ ~ret.strict
     /\ Hits(RequestedEnv) = {}
     /\ Hits("default") = {})
        => /\ NoMatchOutcome
           /\ ret.warnings # <<>>

\* What holds in lenient mode when the environment is declared or the default:
\* the first dotted component is returned, and the warning is emitted by the
\* calls that compute the result, not by those answered from the lru_cache.
LenientWarnsWhenComputed ==
    [][(/\ ret'.op = "map"
        /\ ~ret'.strict
        /\ ~UndeclaredEnv'
        /\ Hits(RequestedEnv)' = {}
        /\ Hits("default")' = {})
          => /\ NoMatchOutcome'
             /\ ret'.warnings # <<>> <=>
                    <<ret'.import_, ret'.requirements_env, ret'.strict>>
                        \notin DOMAIN lru]_vars

\* The targets of the grouped batch that are not built-in and that no matcher
\* of the requested or the default environment accepts.
Unresolved ==
    {ret.batch[i].target : i \in
        {j \in 1..Len(ret.batch) :
            /\ ret.batch[j].target \notin BUILTIN_MODULE_NAMES
            /\ \A env \in {RequestedEnv, "default"} :
                   \A k \in 1..Len(GetMatchers(env_matchers, env)) :
                       ~MatcherMatch(GetMatchers(env_matchers, env)[k].matcher,
                                     ret.batch[j].target)}}

\* What holds of the mapper's grouping in strict mode, for a declared or the
\* default environment: the whole batch is gone through and one error names
\* all the unresolved imports and their roots.
GroupingReportsAllUnresolved ==
    (/\ ret.op = "group"
     /\ ret.strict
     /\ (RequestedEnv = "default" \/ RequestedEnv \in DOMAIN env_matchers)
     /\ Unresolved # {})
        => /\ ret.err = "NoConfiguredRequirementMappingError"
           /\ ret.imports = Unresolved
           /\ ret.roots = {Split(x)[1] : x \in Unresolved}
           /\ ret.seen = [i \in 1..Len(ret.batch) |-> ret.batch[i].target]

(***************************************************************************)
(* Properties of the write rules.                                          *)
(***************************************************************************)
ModeOrder == <<"include", "comment", "exclude">>

Rank(mode) == CHOOSE i \in 1..Len(ModeOrder) : ModeOrder[i] = mode

\* The facts of the requirement the rules were applied to.
IsBuiltin == write_obj.self.is_builtin

AllOccurrencesLazy == \A x \in Range(write_obj.self.source_modules) : x.all_lazy

TouchesStartSubset ==
    \E x \in Range(write_obj.self.source_modules) : x.any_target_in_start_scope

\* include, and the configured modes of the rules whose condition holds.
ApplicableModes ==
    {"include"}
        \cup (IF IsBuiltin THEN {run_cfg.write_rules.write_mode_is_builtin} ELSE {})
        \cup (IF AllOccurrencesLazy THEN {run_cfg.write_rules.write_mode_is_lazy}
              ELSE {})
        \cup (IF TouchesStartSubset THEN {run_cfg.write_rules.write_mode_start_scope}
              ELSE {})

\* C20: the write mode of a requirement is the maximum, under include < comment
\* < exclude, of include and the configured modes of exactly the rules whose
\* condition holds (is built-in, all occurrences lazy, touches the start
\* subset).
C20_WriteModeIsMaxOfApplicable ==
    ret.op = "requirement_rules" =>
        /\ ret.result.write_mode \in ApplicableModes
        /\ \A m \in ApplicableModes : Rank(m) <= Rank(ret.result.write_mode)

\* A built-in requirement with two sources, one of them lazy, none touching the
\* start subset: the built-in rule gives comment, and the rules configured
\* exclude do not apply.
C20_Witness ==
    /\ ret.op = "requirement_rules"
    /\ IsBuiltin
    /\ ~AllOccurrencesLazy
    /\ \E x \in Range(write_obj.self.source_modules) : x.all_lazy
    /\ ~TouchesStartSubset
    /\ run_cfg.write_rules = WriteRules("comment", "exclude", "exclude")
    /\ ret.result.write_mode = "comment"

\* The source attributions of the requirement whose facts (built-in, all
\* lazy, touches the start subset) are those of the requirement.
SameFactsSources ==
    {i \in 1..Len(write_obj.self.source_modules) :
        LET x == write_obj.self.source_modules[i]
        IN  /\ x.is_builtin = IsBuiltin
            /\ x.all_lazy = AllOccurrencesLazy
            /\ x.any_target_in_start_scope = TouchesStartSubset}

\* C21: the three rules are applied alike to a source attribution and to the
\* requirement: a source attribution whose facts (built-in, all lazy, touches
\* the start subset) are those of its requirement has the requirement's mode.
C21_SourceModeEqualsRequirementMode ==
    ret.op = "requirement_rules" =>
        \A i \in SameFactsSources :
            ret.result.source_modules[i].write_mode = ret.result.write_mode

\* What holds instead: the built-in and the lazy rule are applied alike; a
\* source attribution with the facts of its requirement has the requirement's
\* mode unless it touches the start subset, and then it has the maximum of
\* include and the modes of the built-in and lazy rules that apply, whatever
\* the start-scope rule is.
SourceModeIgnoresStartScopeRule ==
    ret.op = "requirement_rules" =>
        \A i \in SameFactsSources :
            LET m == ret.result.source_modules[i].write_mode
                applicable ==
                    {"include"}
                      \cup (IF IsBuiltin
                            THEN {run_cfg.write_rules.write_mode_is_builtin}
                            ELSE {})
                      \cup (IF AllOccurrencesLazy
                            THEN {run_cfg.write_rules.write_mode_is_lazy}
                            ELSE {})
            IN  /\ m \in applicable
                /\ \A o \in applicable : Rank(o) <= Rank(m)
                /\ ~TouchesStartSubset => m = ret.result.write_mode

\* The names that the written lines show, as an array item or in a comment.
WrittenNames ==
    {ret.lines[i].item : i \in 1..Len(ret.lines)}
        \cup {ret.lines[i].quoted : i \in 1..Len(ret.lines)}

\* C22: a built-in requirement under a built-in rule of exclude, and any
\* requirement whose mode is exclude, is not in the written output: not as an
\* array item, not as a commented line, and none of its source lines.
C22_ExcludedNeverWritten ==
    ret.op = "write" =>
        /\ (IsBuiltin /\ run_cfg.write_rules.write_mode_is_builtin = "exclude")
               => ret.result.write_mode = "exclude"
        /\ ret.result.write_mode = "exclude"
               => /\ write_obj.self.requirement \notin WrittenNames
                  /\ \A x \in Range(write_obj.self.source_modules) :
                         x.source_module \notin WrittenNames

\* A built-in requirement was written under rules that exclude built-ins only,
\* one of its sources being lazy and touching the start subset.
C22_Witness ==
    /\ ret.op = "write"
    /\ IsBuiltin
    /\ run_cfg.write_rules = WriteRules("exclude", "include", "comment")
    /\ AllOccurrencesLazy
    /\ TouchesStartSubset
    /\ \E x \in Range(ret.result.source_modules) : x.write_mode = "comment"
    /\ Len(ret.lines) = 2

(***************************************************************************)
(* Properties of the generated requirements.                               *)
(***************************************************************************)
\* The output was generated for a start scope inside its scope and for the
\* default or a declared environment.
GeneratedForDeclaredEnv ==
    /\ ret.op = "generate"
    /\ StartModules \subseteq ScopeGraph.nodes
    /\ (RequestedEnv = "default" \/ RequestedEnv \in DOMAIN env_matchers)

\* The imports that the resolution of the output reports, and those of them
\* that are not built-in and that no matcher of the requested or the default
\* environment accepts.
ResolvedTargets == {e[2] : e \in WalkedEdges(FALSE)}

UnresolvedTargets ==
    {t \in ResolvedTargets :
        /\ t \notin BUILTIN_MODULE_NAMES
        /\ \A env \in {RequestedEnv, "default"} :
               \A k \in 1..Len(GetMatchers(env_matchers, env)) :
                   ~MatcherMatch(GetMatchers(env_matchers, env)[k].matcher, t)}

\* C16: in strict mode, generating the requirements of an output of which
\* k >= 1 imports have no matching requirement goes through all the imports
\* and raises one error whose unresolved-import set is the set of the k names.
C16_StrictBatchRaisesOnce ==
    (/\ GeneratedForDeclaredEnv
     /\ run_cfg.strict_requirements_map
     /\ UnresolvedTargets # {})
        => /\ ret.err = "NoConfiguredRequirementMappingError"
           /\ ret.imports = UnresolvedTargets

\* What holds of the generation, strict_requirements_map set or not: no
\* mapping error is raised; each unresolved import is warned about once, in
\* sorted order, and its first dotted component is written as a requirement.
GenerationMapsLeniently ==
    GeneratedForDeclaredEnv
        => /\ ret.err = "ok"
           /\ ret.warnings = Sorted(UnresolvedTargets)
           /\ \A t \in UnresolvedTargets :
                  \E k \in 1..Len(ret.write_reqs) :
                      ret.write_reqs[k].requirement = Split(t)[1]

(***************************************************************************)
(* Properties of the import-scan cache.                                    *)
(***************************************************************************)
\* The occurrences of a set of statements as a sequence, by line number.
RECURSIVE SetSortedByLine(_, _)
SetSortedByLine(stmts, module_info) ==
    IF stmts = {} THEN <<>>
    ELSE LET x == CHOOSE y \in stmts : \A z \in stmts : y.lineno <= z.lineno
         IN  <<[source_module_info |-> module_info, target |-> x.target,
                is_lazy |-> x.is_lazy, lineno |-> x.lineno]>>
                 \o SetSortedByLine(stmts \ {x}, module_info)

\* The occurrences a scan of the module's file finds now, by target in the
\* order of their lines.
ScanNow(fs, module_info) ==
    [t \in {x.target : x \in {y \in fs : y.src = module_info.name}} |->
        LET of_t == {x \in fs : x.src = module_info.name /\ x.target = t}
        IN  SetSortedByLine(of_t, module_info)]

\* C23: the import-scan cache is append-only and keyed by module name.  The
\* first load of a name scans the file and stores the result; a later load
\* with the stored module record returns the stored entry and does not scan
\* again; a load with another module record raises and leaves the entry as
\* it was.
C23_ScanCacheAppendOnly ==
    [][/\ \A n \in DOMAIN modules_imports :
              /\ n \in DOMAIN modules_imports'
              /\ modules_imports'[n] = modules_imports[n]
       /\ nops' = nops + 1 =>
              LET m == ret'.module_info
              IN  IF m.name \notin DOMAIN modules_imports
                  THEN /\ ret'.err = "ok"
                       /\ DOMAIN modules_imports'
                              = DOMAIN modules_imports \cup {m.name}
                       /\ modules_imports'[m.name].module_info = m
                       /\ modules_imports'[m.name].module_imports.at
                              = ScanNow(files, m)
                       /\ ret'.v = modules_imports'[m.name]
                  ELSE /\ modules_imports' = modules_imports
                       /\ IF modules_imports[m.name].module_info = m
                          THEN /\ ret'.err = "ok"
                               /\ ret'.v = modules_imports[m.name]
                          ELSE ret'.err = "RuntimeError"]_vars

\* B was loaded, its file was edited, and B was loaded again by the same
\* record: the entry returned is the stored one, not what a scan finds now.
C23_Witness ==
    /\ ret.op = "load"
    /\ ret.err = "ok"
    /\ ret.module_info.name = nB
    /\ ret.v.module_imports.at # ScanNow(files, ret.module_info)
    /\ nBb1 \in DOMAIN modules_imports

(***************************************************************************)
(* Properties of a run.                                                    *)
(***************************************************************************)
\* The configuration errors of the run's configuration.
DuplicateScopeName ==
    \E i, j \in 1..Len(run_cfg.scopes) :
        /\ i # j
        /\ \/ run_cfg.scopes[i].name = run_cfg.scopes[j].name
           \/ \E k \in 1..Len(run_cfg.scopes[j].subscopes) :
                  run_cfg.scopes[i].name = run_cfg.scopes[j].subscopes[k][1]

AbsoluteDefaultRoot == run_cfg.default_root[1] = "/"

OutputNameOf(o) ==
    IF o.output_name # "None" THEN o.output_name
    ELSE IF o.start_scope # "None" THEN o.start_scope ELSE o.scope

DuplicateOutputName ==
    \E i, j \in 1..Len(run_cfg.resolvers) :
        i # j /\ OutputNameOf(run_cfg.resolvers[i]) = OutputNameOf(run_cfg.resolvers[j])

DeclaredScopeNames ==
    {run_cfg.scopes[i].name : i \in 1..Len(run_cfg.scopes)}
        \cup UNION {{run_cfg.scopes[i].subscopes[k][1] :
                        k \in 1..Len(run_cfg.scopes[i].subscopes)} :
                    i \in 1..Len(run_cfg.scopes)}

UndefinedScopeReference ==
    \E i \in 1..Len(run_cfg.resolvers) :
        \/ run_cfg.resolvers[i].scope \notin DeclaredScopeNames
        \/ run_cfg.resolvers[i].start_scope \notin DeclaredScopeNames \cup {"None"}

\* Known once the scopes are loaded: the start subset of an output holds a
\* module that its scope does not hold.
StartNotASubset ==
    \E i \in 1..Len(run_cfg.resolvers) :
        LET o == run_cfg.resolvers[i]
        IN  /\ o.scope \in DOMAIN scopes
            /\ o.start_scope \in DOMAIN scopes
            /\ ~(graphs[scopes[o.start_scope]].nodes
                     \subseteq graphs[scopes[o.scope]].nodes)

\* C24: a configuration error (duplicate scope or output name, absolute
\* default root, output naming an undefined scope, start subset that is not
\* a subset of its scope) is reported and ends the run before a directory is
\* scanned and before an output is written.
C24_ConfigErrorsAbortBeforeScanning ==
    (/\ ret.op = "run"
     /\ \/ DuplicateScopeName
        \/ AbsoluteDefaultRoot
        \/ DuplicateOutputName
        \/ UndefinedScopeReference
        \/ StartNotASubset)
        => /\ ret.scanned = <<>>
           /\ ret.written = <<>>
           /\ ret.at \in {"from_pyproject", "raised"}
           /\ ret.at = "raised" => ret.err = "ValueError"

\* What holds of the errors the validation of the model finds: a duplicate
\* scope name or an absolute default root ends the run with a ValueError
\* before a directory is scanned.
ValidationErrorsAbortBeforeScanning ==
    (ret.op = "run" /\ (DuplicateScopeName \/ AbsoluteDefaultRoot))
        => /\ ret.scanned = <<>>
           /\ ret.written = <<>>
           /\ ret.at \in {"from_pyproject", "raised"}
           /\ ret.at = "raised" => ret.err = "ValueError"

\* What holds of the errors of the outputs: a duplicate output name or an
\* undefined scope is reported by write_all_outputs, after the scopes were
\* loaded, and a start subset that is not a subset is not reported, making
\* the mapper raises a TypeError first.  No output is written in any run.
OutputErrorsReportedAfterLoading ==
    ret.op = "run" =>
        /\ ret.written = <<>>
        /\ ret.at # "done"
        /\ (ret.at = "raised" /\ ret.scanned # <<>> /\ ret.failed = 0)
               => IF DuplicateOutputName \/ UndefinedScopeReference
                  THEN ret.err = "ValueError" ELSE ret.err = "TypeError"

\* The definition of the scope that load_scopes failed on, the paths of it
\* that were passed to the scanner, and the modules the scope under
\* construction held before the call that raised: those of its parents and
\* those found under the paths before the last.
FailedScope == run_cfg.scopes[ret.failed]

RECURSIVE PathsBefore(_)
PathsBefore(i) ==
    IF i = 1 THEN 0
    ELSE Len(run_cfg.scopes[i - 1].search_paths)
             + Len(run_cfg.scopes[i - 1].pkg_paths) + PathsBefore(i - 1)

FailedPaths == SubSeq(ret.scanned, PathsBefore(ret.failed) + 1, Len(ret.scanned))

ModulesBeforeFailedCall ==
    UNION {graphs[scopes[FailedScope.parents[k]]].nodes :
              k \in 1..Len(FailedScope.parents)}
        \cup UNION {Range(Disk[FailedPaths[k]].found) :
                       k \in 1..(Len(FailedPaths) - 1)}

FoundNames ==
    UNION {Range(Disk[ret.search_paths[k]].found) : k \in 1..Len(ret.search_paths)}
        \cup UNION {Range(Disk[ret.package_paths[k]].found) :
                       k \in 1..Len(ret.package_paths)}

CleanScan ==
    /\ \A k \in 1..Len(ret.search_paths) : Disk[ret.search_paths[k]].is_dir
    /\ \A k \in 1..Len(ret.package_paths) : Disk[ret.package_paths[k]].exists
    /\ ret.err \notin {"DuplicateModuleError", "RuntimeError"}

\* The dotted prefixes of a name, the name itself excluded: its top-level
\* root first, its parent package last.
Packages(n) == {Join(SubSeq(Split(n), 1, k)) : k \in 1..(Len(Split(n)) - 1)}

\* A module is reachable when a chain of containment edges leads from its
\* top-level root to it: each of its packages was scanned.
ReachableNames == {n \in FoundNames : Packages(n) \subseteq FoundNames}

ContainmentEdges ==
    {<<p, n>> \in FoundNames \X FoundNames :
        Len(Split(n)) > 1 /\ p = Join(SubSeq(Split(n), 1, Len(Split(n)) - 1))}

\* C26: when the scan is told to keep unreachable modules all the scanned
\* modules remain, when told to drop them exactly the reachable ones remain,
\* also when a top-level root was not scanned, and under the default an
\* unreachable module makes the scan fail.
C26_UnreachablePolicy ==
    (ret.op = "find_modules" /\ CleanScan)
        => /\ ret.reachable_only = "False"
                  => /\ ret.err = "ok"
                     /\ ret.nodes = FoundNames
                     /\ ret.edges = ContainmentEdges
           /\ ret.reachable_only = "True"
                  => /\ ret.err = "ok"
                     /\ ret.nodes = ReachableNames
           /\ ret.reachable_only = "omitted"
                  => IF ReachableNames # FoundNames THEN ret.err # "ok"
                     ELSE ret.err = "ok" /\ ret.nodes = FoundNames

\* What holds of the scan: without reachable_only, or with False, every
\* scanned module is kept and no unreachable module fails the scan; with True
\* the reachable modules remain when every top-level root was scanned, and
\* the scan raises NodeNotFound otherwise.
ScanKeepsByDefault ==
    (ret.op = "find_modules" /\ CleanScan)
        => IF ret.reachable_only \in {"omitted", "False"}
           THEN /\ ret.err = "ok"
                /\ ret.nodes = FoundNames
                /\ ret.edges = ContainmentEdges
           ELSE IF \A n \in FoundNames : Split(n)[1] \in FoundNames
           THEN ret.err = "ok" /\ ret.nodes = ReachableNames
           ELSE ret.err = "NodeNotFound"

(***************************************************************************)
(* Properties of the filtered view of a resolution.                        *)
(***************************************************************************)
\* The module names a scope holds.
ScopeModuleNames(s) == graphs[scopes[s]].nodes

FilteredWithDefaults ==
    /\ ret.op = "filter_keys"
    /\ ret.exclude_in_search_space
    /\ ret.exclude_builtins

Generated == ret.op = "generate"

\* C28: the targets resolved with skip_lazy are among the targets resolved
\* without it, each with occurrences that are among those resolved without
\* it, so a generation never raises the RuntimeError of the subset check.
C28_ExplicitSubsetOfAll ==
    Generated
        => /\ DOMAIN ret.resolved_explicit \subseteq DOMAIN ret.resolved_all
           /\ \A t \in DOMAIN ret.resolved_explicit :
                  ret.resolved_explicit[t] \subseteq ret.resolved_all[t]
           /\ ret.err # "RuntimeError"

\* A generation where the resolution without skip_lazy reached a target the
\* one with skip_lazy did not, and a shared target has more occurrences in it.
C28_Witness ==
    /\ Generated
    /\ DOMAIN ret.resolved_all \ DOMAIN ret.resolved_explicit # {}
    /\ \E t \in DOMAIN ret.resolved_explicit :
           ret.resolved_explicit[t] # ret.resolved_all[t]

(***************************************************************************)
(* Properties of the traversal.                                            *)
(***************************************************************************)
\* The edges the traversal gave, as a set.
MergedEdges == Range(out.edges)

\* C29: a resolve ends on every import graph, cycles and self-imports
\* included, with a result or with an error raised before the traversal; the
\* traversal gives each edge reachable from the start modules exactly once,
\* so a destination is reached once through each of its incoming edges.
C29_EachReachableEdgeMergedOnce ==
    /\ req.active => out.err \in {"ok", "ValueError", "RuntimeError"}
    /\ Returns
           => /\ MergedEdges = WalkedEdges(req.skip_lazy)
              /\ \A i \in DOMAIN out.edges, j \in DOMAIN out.edges :
                     out.edges[i] = out.edges[j] => i = j
              /\ \A t \in DOMAIN out.imports :
                     Cardinality({i \in DOMAIN out.edges : out.edges[i][2] = t})
                         = Cardinality({e \in WalkedEdges(req.skip_lazy) : e[2] = t})

\* A traversal of a graph with a self-import and a cycle through three
\* modules, where a module is reached through two incoming edges.
C29_Witness ==
    /\ Returns
    /\ \E e \in MergedEdges : e[1] = e[2]
    /\ \E e \in MergedEdges :
           /\ e[1] # e[2]
           /\ e[1] \in ReachableFrom({e[2]}, MergedEdges \ {<<e[2], e[2]>>})
    /\ \E t \in DOMAIN out.imports :
           Cardinality({i \in DOMAIN out.edges : out.edges[i][2] = t}) >= 2

(***************************************************************************)
(* Provenance of the occurrences of a resolution.                          *)
(***************************************************************************)
\* C30: every occurrence a resolution stores under a target names that
\* target, and its source is a module of the scope that is a start module or
\* itself a reached target.
C30_OccurrenceProvenance ==
    Returns
        => \A t \in DOMAIN out.imports :
               \A o \in out.imports[t] :
                   /\ o.target = t
                   /\ o.source_module_info.name \in ScopeGraph.nodes
                   /\ \/ o.source_module_info.name \in StartModules
                      \/ o.source_module_info.name \in DOMAIN out.imports

\* A resolution holding an occurrence whose source is a reached target
\* outside the start modules, and one whose source is a start module that no
\* import reaches.
C30_Witness ==
    /\ Returns
    /\ \E t \in DOMAIN out.imports :
           \E o \in out.imports[t] :
               /\ o.source_module_info.name \notin StartModules
               /\ o.source_module_info.name \in DOMAIN out.imports
    /\ \E t \in DOMAIN out.imports :
           \E o \in out.imports[t] :
               /\ o.source_module_info.name \in StartModules
               /\ o.source_module_info.name \notin DOMAIN out.imports

=============================================================================
